---- MODULE Spec2Model ----
(***************************************************************************)
(* Cross-run analytics and display helpers of the segment-run front end.   *)
(*                                                                         *)
(* Numbers.  JavaScript numbers are modelled exactly, as scaled integers   *)
(* or as fractions <<numerator, denominator>> with a positive denominator: *)
(*   - distances are counted in tenths of a mile (Tenth = 10 per mile),    *)
(*     the step of the segment form;                                       *)
(*   - paces are whole numbers of pace units; a segment time is a pace     *)
(*     multiplied by a distance in tenths;                                 *)
(*   - NaN is 0/0 and the infinities are 1/0 and -1/0; null and undefined  *)
(*     are tagged records.                                                 *)
(***************************************************************************)
EXTENDS Integers, Sequences, FiniteSets, TLC

VARIABLES
    runs,             \* CustomSegments: the runs prop
    activeSegment,    \* CustomSegments: useState(null)
    segmentResults,   \* CustomSegments: useState(null)
    chartRuns,        \* trend charts: the runs prop
    currentRun,       \* trend charts: the currentRun prop
    similarRuns,      \* PaceProgressChart: the similarRuns memo
    hrSimilarRuns,    \* HeartRatePaceCorrelation: similarRuns
    results,          \* App: the analysis results shown
    mileSplitsData,   \* App: what findMileSplits(results) gives the splits table
    runProp,          \* PaceConsistency, FatigueAnalysis: the run prop
    consistencyView,  \* PaceConsistency: what it renders
    fatigueView,      \* FatigueAnalysis: what it renders
    metricsView,      \* App: what the Advanced Metrics section renders
    paceArg,          \* formatPace: the argument
    paceText,         \* formatPace: the text returned
    segments,         \* CustomSegments: useState([]), the saved segments
    savedSegments,    \* localStorage item 'customSegments'
    cachedRunHistory, \* ApiService: let cachedRunHistory
    lastFetchTime,    \* ApiService: let lastFetchTime
    clock,            \* Date.now(), in minutes
    serverRuns,       \* the ids of the runs the server holds
    calls,            \* ApiService: the calls made so far, in order of start
    retryCall,        \* fetchWithRetry: the call, its retries argument and outcome
    fetchLog,         \* fetchWithRetry: the outcomes of its fetchWithCORS calls
    runHistory,       \* App: useState([])
    compareMode,      \* App: useState(false)
    comparedRuns,     \* App: useState([])
    appError,         \* App: useState(''), the error state
    userId,           \* App: useState(null)
    loading,          \* App: useState(false)
    analysisVisible,  \* App: useState(false)
    selectedFile,     \* App: useState(null)
    requests,         \* App: the asynchronous handlers started so far
    historyRuns,      \* components/RunHistory: useState([]), the runs state
    historyLoading,   \* components/RunHistory: useState(true), loading
    historyError,     \* components/RunHistory: useState(null), error
    isMounted,        \* components/RunHistory: let isMounted of the effect
    runsRequest       \* components/RunHistory: where the fetchRuns() call stands

segVars == <<runs, activeSegment, segmentResults>>
chartVars == <<chartRuns, currentRun, similarRuns, hrSimilarRuns>>
splitVars == <<results, mileSplitsData>>
runVars == <<runProp, consistencyView, fatigueView>>
paceVars == <<paceArg, paceText>>
storeVars == <<segments, savedSegments>>
apiVars == <<cachedRunHistory, lastFetchTime, clock, serverRuns, calls>>
retryVars == <<retryCall, fetchLog>>
appVars == <<runHistory, compareMode, comparedRuns, appError, userId, loading,
             analysisVisible, selectedFile, requests>>
histVars == <<historyRuns, historyLoading, historyError, isMounted, runsRequest>>
moreVars == <<storeVars, apiVars, retryVars, appVars, histVars>>
vars == <<segVars, chartVars, splitVars, runVars, metricsView, paceVars, moreVars>>

\* null / undefined, where the code does not tell them apart
Null == [isNull |-> TRUE]

\* a component that has not rendered yet
NotRendered == [rendered |-> FALSE]
Rendered(out) == [rendered |-> TRUE, out |-> out]

\* an array, where the value may also be null
List(q) == [list |-> q]

--------------------------------------------------------------------------
(* Each component is checked on its own: the others stay unmounted.        *)

SegmentsIdle ==
    /\ runs = <<>>
    /\ activeSegment = Null
    /\ segmentResults = Null

ChartsIdle ==
    /\ chartRuns = <<>>
    /\ currentRun = Null
    /\ similarRuns = NotRendered
    /\ hrSimilarRuns = NotRendered

SplitsIdle ==
    /\ results = Null
    /\ mileSplitsData = NotRendered

RunViewsIdle ==
    /\ runProp = Null
    /\ consistencyView = NotRendered
    /\ fatigueView = NotRendered

MetricsIdle == metricsView = NotRendered

PaceIdle ==
    /\ paceArg = Null
    /\ paceText = NotRendered

StoreIdle ==
    /\ segments = <<>>
    /\ savedSegments = Null

ApiIdle ==
    /\ cachedRunHistory = Null
    /\ lastFetchTime = 0
    /\ clock = 0
    /\ serverRuns = <<>>
    /\ calls = <<>>

RetryIdle ==
    /\ retryCall = Null
    /\ fetchLog = <<>>

\* App as constructed (lines 1011-1029), nobody logged in
AppIdle ==
    /\ runHistory = List(<<>>)
    /\ compareMode = FALSE
    /\ comparedRuns = <<>>
    /\ appError = ""
    /\ userId = Null
    /\ loading = FALSE
    /\ analysisVisible = FALSE
    /\ selectedFile = Null
    /\ requests = <<>>

\* components/RunHistory as constructed (lines 7-9), its effect not yet run
HistoryIdle ==
    /\ historyRuns = List(<<>>)
    /\ historyLoading = TRUE
    /\ historyError = Null
    /\ isMounted = FALSE
    /\ runsRequest = "none"

MoreIdle == StoreIdle /\ ApiIdle /\ RetryIdle /\ AppIdle /\ HistoryIdle

\* the components of the first sections, all unmounted
baseVars == <<segVars, chartVars, splitVars, runVars, metricsView, paceVars>>
BaseIdle ==
    /\ SegmentsIdle
    /\ ChartsIdle
    /\ SplitsIdle
    /\ RunViewsIdle
    /\ MetricsIdle
    /\ PaceIdle

--------------------------------------------------------------------------
(* Bounds and input sets                                                   *)

Tenth == 10
MaxSplits == 3
MaxRuns == 2
MaxChartRuns == 2
MaxSegments == 3
MaxMileSplits == 4

\* sequences over S of length 0..n
RECURSIVE SeqsUpTo(_, _)
SeqsUpTo(S, n) ==
    IF n = 0 THEN {<<>>}
    ELSE LET shorter == SeqsUpTo(S, n - 1)
         IN  shorter \cup {Append(q, x) : q \in {t \in shorter : Len(t) = n - 1}, x \in S}

Abs(x) == IF x < 0 THEN -x ELSE x

RECURSIVE GCD(_, _)
GCD(a, b) == IF b = 0 THEN a ELSE GCD(b, a % b)

\* fractions <<numerator, denominator>>, denominator > 0
Frac(n, d) == <<n, d>>
Reduced(n, d) ==
    LET g == GCD(Abs(n), Abs(d))
        sgn == IF d < 0 THEN -1 ELSE 1
    IN  IF g = 0 THEN <<n, d>> ELSE <<sgn * (n \div g), sgn * (d \div g)>>
FracEq(a, b) == a[1] * b[2] = b[1] * a[2]
FracLt(a, b) == a[1] * b[2] < b[1] * a[2]
FracLe(a, b) == a[1] * b[2] <= b[1] * a[2]
FracAdd(a, b) == Reduced(a[1] * b[2] + b[1] * a[2], a[2] * b[2])
FracSub(a, b) == Reduced(a[1] * b[2] - b[1] * a[2], a[2] * b[2])
FracMul(a, b) == Reduced(a[1] * b[1], a[2] * b[2])
FracDiv(a, b) == Reduced(a[1] * b[2], a[2] * b[1])      \* b # 0

\* NaN, for 0 / 0
NaN == <<0, 0>>

Min(a, b) == IF a <= b THEN a ELSE b
Max(a, b) == IF a >= b THEN a ELSE b


--------------------------------------------------------------------------
(* CustomSegments.analyzeSegment  (src/src/components/CustomSegments.js)   *)

\* a mile split as analyzeSegment reads it: split.pace, split.avg_hr
SplitValues ==
    { [pace |-> 0, avg_hr |-> 0],   [pace |-> 6, avg_hr |-> 150],
      [pace |-> 9, avg_hr |-> 0] }

\* run.data: an object, the same object as a JSON string, or a string that
\* JSON.parse rejects
RunData ==
    { [kind |-> k, mile_splits |-> q] :
          k \in {"object", "string"}, q \in SeqsUpTo(SplitValues, MaxSplits) }
    \cup { [kind |-> "invalid", mile_splits |-> <<>>] }

SubjectRuns ==
    { [date |-> d, total_distance |-> t, avg_pace |-> p, avg_hr |-> 140, data |-> x] :
          d \in {3}, t \in {12, 30}, p \in {0, 7}, x \in RunData }

\* the rest of the history: a run too short for any segment, and a run
\* stored without mile splits
OtherRuns ==
    { [date |-> 5, total_distance |-> 4, avg_pace |-> 8, avg_hr |-> 0,
       data |-> [kind |-> "object", mile_splits |-> <<[pace |-> 8, avg_hr |-> 0]>>]],
      [date |-> 1, total_distance |-> 22, avg_pace |-> 7, avg_hr |-> 130,
       data |-> [kind |-> "object", mile_splits |-> <<>>]] }

\* the runs prop: every run carries its position as id
WithIds(q) == [i \in 1..Len(q) |-> [id |-> i] @@ q[i]]
RunLists ==
    { WithIds(<<s>> \o o) : s \in SubjectRuns, o \in SeqsUpTo(OtherRuns, MaxRuns - 1) }

\* saved segments, distances in tenths of a mile
Segments ==
    { [id |-> s * 100 + e, startDistance |-> s, endDistance |-> e] :
          s \in {0, 3, 10, 20}, e \in {7, 10, 15, 25} }

Floor(d) == d \div Tenth                    \* Math.floor of a distance, in miles
Ceil(d) == (d + Tenth - 1) \div Tenth       \* Math.ceil of a distance, in miles

\* runs.filter(run => run.total_distance >= segment.startDistance + 0.5)
RunsCoveringStartNoMargin(rs, segment) ==
    SelectSeq(rs, LAMBDA run : run.total_distance >= segment.startDistance)
RunsCoveringStart(rs, segment) ==
    SelectSeq(rs, LAMBDA run : run.total_distance >= segment.startDistance + 5)

\* lines 144-162: the mile splits found in run.data, and whether parsing
\* failed (estimated = true in the catch)
SegmentData(run) == run.data.mile_splits
ParseFailed(run) == run.data.kind = "invalid"

\* run.avg_pace || 10 and run.avg_hr || 0
OverallPace(run) == IF run.avg_pace # 0 THEN run.avg_pace ELSE 10
OverallHR(run) == run.avg_hr

\* lines 207-218: the part of mile `mile` counted, in tenths
MileContribution(segment, len, mile) ==
    LET first == IF mile = Floor(segment.startDistance)
                 THEN Tenth - (segment.startDistance - mile * Tenth)
                 ELSE Tenth
    IN  IF mile = Floor(segment.endDistance) /\ segment.endDistance < len * Tenth
        THEN segment.endDistance - Floor(segment.endDistance) * Tenth
        ELSE first

\* lines 203-226: the loop over the miles of the segment
RECURSIVE SumMiles(_, _, _, _)
SumMiles(segment, segmentData, mile, acc) ==
    IF mile >= Min(Ceil(segment.endDistance), Len(segmentData)) THEN acc
    ELSE LET split == segmentData[mile + 1]
             c == MileContribution(segment, Len(segmentData), mile)
             withHR == split.avg_hr # 0
         IN  SumMiles(segment, segmentData, mile + 1,
                 [segmentTime |-> acc.segmentTime + split.pace * c,
                  totalHR |-> acc.totalHR + (IF withHR THEN split.avg_hr * c ELSE 0),
                  hrCount |-> acc.hrCount + (IF withHR THEN c ELSE 0)])

\* lines 167-187: no or too few mile splits
EstimateFromOverall(run, segment) ==
    LET segmentDistanceValue ==
            Min(segment.endDistance, run.total_distance) - segment.startDistance
    IN  IF segmentDistanceValue <= 0 THEN Null
        ELSE [id |-> run.id, date |-> run.date,
              distance |-> [text |-> TRUE, tenths |-> segmentDistanceValue],
              pace |-> Frac(OverallPace(run), 1),
              avgHR |-> Frac(OverallHR(run), 1),
              estimated |-> TRUE]

\* lines 229-240: invalid segment time
InvalidFallbackUnflagged(run, segment, estimated) ==
    [id |-> run.id, date |-> run.date,
     distance |-> [text |-> FALSE, tenths |-> segment.endDistance - segment.startDistance],
     pace |-> Frac(OverallPace(run), 1),
     avgHR |-> Frac(OverallHR(run), 1),
     estimated |-> estimated]
InvalidFallback(run, segment, estimated) ==
    [id |-> run.id, date |-> run.date,
     distance |-> [text |-> FALSE, tenths |-> segment.endDistance - segment.startDistance],
     pace |-> Frac(OverallPace(run), 1),
     avgHR |-> Frac(OverallHR(run), 1),
     estimated |-> TRUE]

\* lines 243-246: isFinite(segmentPace) && segmentPace > 0 ? segmentPace : run.avg_pace || 10
ValidPace(segmentPace, run) ==
    IF segmentPace[1] > 0 THEN segmentPace ELSE Frac(OverallPace(run), 1)

\* lines 139-258: the result of one run, or Null
AnalyzeRun(run, segment) ==
    LET estimated == ParseFailed(run)
        segmentData == SegmentData(run)
    IN  IF Len(segmentData) = 0 \/ Len(segmentData) * Tenth < segment.endDistance
        THEN EstimateFromOverall(run, segment)
        ELSE LET segmentDistance ==
                     Min(segment.endDistance, Len(segmentData) * Tenth)
                         - segment.startDistance
             IN  IF segmentDistance <= 0 THEN Null
                 ELSE LET acc == SumMiles(segment, segmentData, Floor(segment.startDistance),
                                     [segmentTime |-> 0, totalHR |-> 0, hrCount |-> 0])
                      IN  IF acc.segmentTime <= 0
                          THEN InvalidFallback(run, segment, estimated)
                          ELSE [id |-> run.id, date |-> run.date,
                                distance |-> [text |-> FALSE, tenths |-> segmentDistance],
                                pace |-> ValidPace(Frac(acc.segmentTime, segmentDistance), run),
                                avgHR |-> IF acc.hrCount > 0
                                          THEN Frac(acc.totalHR, acc.hrCount)
                                          ELSE Frac(0, 1),
                                estimated |-> estimated]

\* results.filter(r => r !== null)
RECURSIVE MapRuns(_, _)
MapRuns(rs, segment) ==
    IF rs = <<>> THEN <<>>
    ELSE LET r == AnalyzeRun(Head(rs), segment)
         IN  (IF r = Null THEN <<>> ELSE <<r>>) \o MapRuns(Tail(rs), segment)

\* validResults.sort((a, b) => new Date(a.date) - new Date(b.date)), stable
RECURSIVE InsertByDate(_, _)
InsertByDate(sorted, r) ==
    IF sorted = <<>> THEN <<r>>
    ELSE IF r.date < Head(sorted).date THEN <<r>> \o sorted
    ELSE <<Head(sorted)>> \o InsertByDate(Tail(sorted), r)
RECURSIVE SortByDate(_)
SortByDate(q) ==
    IF q = <<>> THEN <<>>
    ELSE InsertByDate(SortByDate(SubSeq(q, 1, Len(q) - 1)), q[Len(q)])

NoRunsError == "No runs with sufficient data cover this segment."
NoResultsError == "No runs with valid data could be analyzed for this segment."

--------------------------------------------------------------------------
(* Similar-run filter of the trend charts                                  *)
(* (src/src/components/PaceProgressChart.js, src/unnamed/part_006)         *)
(* Pace limits are counted in tenths of a minute per mile.  The pace       *)
(* limits of the input runs are never exactly 0.6 apart: at that distance  *)
(* the outcome of the comparison depends on the rounding of the doubles    *)
(* (10 - 9.4 < 0.6, but 8.8 - 8.2 > 0.6).                                   *)

\* where a run keeps its pace limit: run.pace_limit (a number or numeric
\* text, Null when absent or 0) and run.data (absent, an object, a JSON
\* string, or a string JSON.parse rejects)
PaceSources ==
    { [pace_limit |-> [num |-> 95],   data |-> Null],
      [pace_limit |-> [text |-> 97],  data |-> [kind |-> "object", pace_limit |-> 105]],
      [pace_limit |-> Null,           data |-> [kind |-> "object", pace_limit |-> 107]],
      [pace_limit |-> Null,           data |-> [kind |-> "string", pace_limit |-> 102]],
      [pace_limit |-> Null,           data |-> [kind |-> "invalid"]],
      [pace_limit |-> Null,           data |-> Null] }

ChartRunPool ==
    { [total_distance |-> t] @@ src : t \in {22, 27, 33}, src \in PaceSources }
CurrentRunPool ==
    { [id |-> 0, date |-> 0, total_distance |-> t] @@ src : t \in {20, 30}, src \in PaceSources }

\* the history arrives newest first: run i of n has date n - i + 1
Dated(q) == [i \in 1..Len(q) |-> [id |-> i, date |-> Len(q) - i + 1] @@ q[i]]
ChartRunLists == { Dated(q) : q \in SeqsUpTo(ChartRunPool, MaxChartRuns) }

\* Number(x) of a number or of numeric text
Number(x) == IF "text" \in DOMAIN x THEN x.text ELSE x.num

\* getPaceLimit(run)
getPaceLimit(run) ==
    IF run.pace_limit # Null /\ Number(run.pace_limit) > 0 THEN run.pace_limit
    ELSE IF run.data # Null /\ run.data.kind = "object" /\ run.data.pace_limit # 0
         THEN [num |-> run.data.pace_limit]
    ELSE IF run.data # Null /\ run.data.kind = "string" /\ run.data.pace_limit # 0
         THEN [num |-> run.data.pace_limit]
    ELSE [num |-> 100]

\* the filter callback: pace within 0.6, distance within 10% of the target
IsSimilarNoUpperBound(run, current) ==
    LET targetPace == getPaceLimit(current)
        targetDistance == current.total_distance
        runPaceLimit == getPaceLimit(run)
    IN  /\ Abs(Number(runPaceLimit) - Number(targetPace)) < 6
        /\ 10 * run.total_distance >= 10 * targetDistance - targetDistance
IsSimilar(run, current) ==
    LET targetPace == getPaceLimit(current)
        targetDistance == current.total_distance
        \* distanceMargin = targetDistance * 0.1, compared in hundredths
        runPaceLimit == getPaceLimit(run)
    IN  /\ Abs(Number(runPaceLimit) - Number(targetPace)) < 6
        /\ 10 * run.total_distance >= 10 * targetDistance - targetDistance
        /\ 10 * run.total_distance <= 10 * targetDistance + targetDistance

\* PaceProgressChart: the similarRuns memo
PaceProgressSimilarRuns(rs, current) ==
    IF current = Null THEN <<>>
    ELSE SortByDate(SelectSeq(rs, LAMBDA run : IsSimilar(run, current)))

\* HeartRatePaceCorrelation: similarRuns
CorrelationSimilarRuns(rs, current) ==
    SelectSeq(rs, LAMBDA run : IsSimilar(run, current))

InitCharts ==
    /\ chartRuns \in ChartRunLists
    /\ currentRun \in CurrentRunPool \cup {Null}
    /\ similarRuns = NotRendered
    /\ hrSimilarRuns = NotRendered
    /\ SegmentsIdle
    /\ SplitsIdle
    /\ RunViewsIdle
    /\ MetricsIdle
    /\ PaceIdle
    /\ MoreIdle

\* PaceProgressChart renders
RenderPaceProgressChart ==
    /\ similarRuns' = Rendered(PaceProgressSimilarRuns(chartRuns, currentRun))
    /\ UNCHANGED <<chartRuns, currentRun, hrSimilarRuns, segVars, splitVars, runVars, metricsView, paceVars, moreVars>>

\* HeartRatePaceCorrelation renders; it reads currentRun.total_distance
\* and throws on a null currentRun
RenderHeartRatePaceCorrelation ==
    /\ currentRun # Null
    /\ hrSimilarRuns' = Rendered(CorrelationSimilarRuns(chartRuns, currentRun))
    /\ UNCHANGED <<chartRuns, currentRun, similarRuns, segVars, splitVars, runVars, metricsView, paceVars, moreVars>>

NextCharts == RenderPaceProgressChart \/ RenderHeartRatePaceCorrelation

SpecCharts == InitCharts /\ [][NextCharts]_vars

(* Claims about the similar-run filter                                     *)

IdsOf(q) == { q[i].id : i \in 1..Len(q) }

\* the runs the claim keeps: pace limits within 0.6 of each other, distance
\* within 10% of the reference distance, bounds included
QualifyingIds ==
    { chartRuns[k].id : k \in
        { j \in 1..Len(chartRuns) :
            /\ Abs(Number(getPaceLimit(chartRuns[j])) - Number(getPaceLimit(currentRun))) < 6
            /\ 100 * chartRuns[j].total_distance >= 90 * currentRun.total_distance
            /\ 100 * chartRuns[j].total_distance <= 110 * currentRun.total_distance } }

--------------------------------------------------------------------------
(* CustomSegments as a state machine                                       *)

InitSegments ==
    /\ runs \in RunLists
    /\ activeSegment = Null
    /\ segmentResults = Null
    /\ ChartsIdle
    /\ SplitsIdle
    /\ RunViewsIdle
    /\ MetricsIdle
    /\ PaceIdle
    /\ MoreIdle

\* analyzeSegment(segment)
analyzeSegment(segment) ==
    LET validRuns == RunsCoveringStart(runs, segment)
        sortedResults == SortByDate(MapRuns(validRuns, segment))
    IN  /\ activeSegment' = segment
        /\ segmentResults' =
              IF Len(validRuns) < 1 THEN [error |-> NoRunsError]
              ELSE IF Len(sortedResults) = 0 THEN [error |-> NoResultsError]
              ELSE [results |-> sortedResults]
        /\ UNCHANGED <<runs, chartVars, splitVars, runVars, metricsView, paceVars, moreVars>>

NextSegments == \E segment \in Segments : analyzeSegment(segment)

SpecSegments == InitSegments /\ [][NextSegments]_vars


(* Claims about analyzeSegment                                             *)

HasResults == "results" \in DOMAIN segmentResults
HasError == "error" \in DOMAIN segmentResults

RECURSIVE SumOver(_, _)
SumOver(S, f) ==
    IF S = {} THEN 0
    ELSE LET x == CHOOSE y \in S : TRUE IN f[x] + SumOver(S \ {x}, f)

\* the miles of a run with len splits that overlap [start, end]
CoveredMiles(segment, len) ==
    { m \in 0..(len - 1) :
          m * Tenth < segment.endDistance /\ (m + 1) * Tenth > segment.startDistance }

\* sum over the covered miles of split pace x mile contribution
WeightedTime(run, segment) ==
    LET splits == run.data.mile_splits
    IN  SumOver(CoveredMiles(segment, Len(splits)),
                [m \in CoveredMiles(segment, Len(splits)) |->
                     splits[m + 1].pace * MileContribution(segment, Len(splits), m)])

SplitsSpan(run, segment) ==
    /\ run.data.kind # "invalid"
    /\ Len(run.data.mile_splits) > 0
    /\ Len(run.data.mile_splits) * Tenth >= segment.endDistance

\* C1: a result is tagged estimated = false only when its pace is the
\* weighted split time divided by the segment distance; every result whose
\* pace is the run's overall avg_pace (or the default 10) because the splits
\* are missing, too few, unparseable or sum to no time has estimated = true.
C1_EstimatedAlwaysTagged ==
    HasResults =>
        \A i \in 1..Len(segmentResults.results) :
            LET r == segmentResults.results[i]
                run == runs[r.id]
                exact == SplitsSpan(run, activeSegment)
                             /\ WeightedTime(run, activeSegment) > 0
            IN  /\ r.estimated = ~exact
                /\ exact =>
                       FracEq(r.pace,
                              Frac(WeightedTime(run, activeSegment),
                                   activeSegment.endDistance - activeSegment.startDistance))
                /\ ~exact => r.pace = Frac(IF run.avg_pace # 0 THEN run.avg_pace ELSE 10, 1)

\* C1 witness: a run whose splits span the segment but sum to no time is
\* reported with the overall pace, and an exact result stands next to it
C1_Witness ==
    /\ HasResults
    /\ \E i \in 1..Len(segmentResults.results) :
           LET r == segmentResults.results[i]
           IN  /\ SplitsSpan(runs[r.id], activeSegment)
               /\ r.estimated
               /\ activeSegment.startDistance < activeSegment.endDistance

\* C2: when the splits span the segment, the mile contributions sum to
\* endDistance - startDistance, and a run whose covered splits all have
\* pace p is reported with segment pace p (same-mile ranges included).
C2_WeightedMeanOfCoveredSplits ==
    HasResults =>
        \A i \in 1..Len(segmentResults.results) :
            LET r == segmentResults.results[i]
                run == runs[r.id]
                splits == run.data.mile_splits
                miles == CoveredMiles(activeSegment, Len(splits))
            IN  (SplitsSpan(run, activeSegment) /\ ~r.estimated) =>
                    /\ SumOver(miles, [m \in miles |->
                                   MileContribution(activeSegment, Len(splits), m)])
                           = activeSegment.endDistance - activeSegment.startDistance
                    /\ \A p \in {splits[m + 1].pace : m \in miles} :
                           (\A m \in miles : splits[m + 1].pace = p)
                               => FracEq(r.pace, Frac(p, 1))

\* C3: no result entry belongs to a run shorter than startDistance + 0.5,
\* a result list is never empty, and when no run reaches the margin the
\* outcome is the error state.
C3_ShortRunsExcluded ==
    activeSegment # Null =>
        /\ HasResults =>
               /\ Len(segmentResults.results) >= 1
               /\ \A i \in 1..Len(segmentResults.results) :
                      runs[segmentResults.results[i].id].total_distance
                          >= activeSegment.startDistance + 5
        /\ (\A k \in 1..Len(runs) :
                runs[k].total_distance < activeSegment.startDistance + 5)
               => HasError

\* C3 witness: results are shown while a run of the history is too short
C3_Witness ==
    /\ HasResults
    /\ \E k \in 1..Len(runs) :
           /\ runs[k].total_distance < activeSegment.startDistance + 5
           /\ \A i \in 1..Len(segmentResults.results) : segmentResults.results[i].id # k


--------------------------------------------------------------------------
(* App.findMileSplits  (src/src/App.js)                                    *)
(* A time is a pace multiplied by a distance in tenths of a mile.          *)

\* one stretch of the track: distance in tenths (segment.distance || 0),
\* pace, avg_hr (0 when the stretch has no heart rate)
TrackSegments ==
    { [distance |-> dist, pace |-> k.pace, avg_hr |-> k.avg_hr, type |-> k.type] :
          dist \in {0, 2, 10, 12, 25},
          k \in { [type |-> "fast", pace |-> 6, avg_hr |-> 160],
                  [type |-> "slow", pace |-> 10, avg_hr |-> 0],
                  [type |-> "slow", pace |-> 10, avg_hr |-> 140] } }

\* the stretches of a track in order, each stamped with its start_time
Timed(q) == [i \in 1..Len(q) |-> [start_time |-> i] @@ q[i]]
Tracks == { Timed(q) : q \in SeqsUpTo(TrackSegments, MaxSegments) \ {<<>>} }

\* the sum of a sequence of numbers
RECURSIVE SumSeq(_)
SumSeq(q) == IF q = <<>> THEN 0 ELSE Head(q) + SumSeq(Tail(q))

\* the mile splits the server may have stored with the results
StoredSplits ==
    { Null, List(<<>>),
      List(<<[mile |-> 1, split_time |-> 80, split_pace |-> Frac(8, 1), avg_hr |-> Frac(0, 1),
         partial |-> FALSE, distance |-> Tenth]>>) }

\* the analysis results: fast and slow segments apart, total_distance
ResultsOf(track, stored) ==
    [ fast_segments |-> SelectSeq(track, LAMBDA g : g.type = "fast"),
      slow_segments |-> SelectSeq(track, LAMBDA g : g.type = "slow"),
      total_distance |-> SumSeq([i \in 1..Len(track) |-> track[i].distance]),
      mile_splits |-> stored ]
AnalysisResults == { ResultsOf(t, m) : t \in Tracks, m \in StoredSplits }

\* [...fast, ...slow].sort((a, b) => new Date(a.start_time) - new Date(b.start_time))
RECURSIVE InsertByStart(_, _)
InsertByStart(sorted, g) ==
    IF sorted = <<>> THEN <<g>>
    ELSE IF g.start_time < Head(sorted).start_time THEN <<g>> \o sorted
    ELSE <<Head(sorted)>> \o InsertByStart(Tail(sorted), g)
RECURSIVE SortByStart(_)
SortByStart(q) ==
    IF q = <<>> THEN <<>>
    ELSE InsertByStart(SortByStart(SubSeq(q, 1, Len(q) - 1)), q[Len(q)])

\* hrPointsCount > 0 ? currentMileHR / hrPointsCount : 0
MileHR(st) ==
    IF st.hrPointsCount > 0 THEN Frac(st.currentMileHR, st.hrPointsCount) ELSE Frac(0, 1)

\* lines 957-969: the whole miles inside one segment
RECURSIVE WholeMileSplits(_, _, _)
WholeMileSplits(segment, mileIndex, wholeMiles) ==
    IF wholeMiles = 0 THEN <<>>
    ELSE <<[mile |-> mileIndex, split_time |-> segment.pace * Tenth,
            split_pace |-> Frac(segment.pace, 1), avg_hr |-> Frac(segment.avg_hr, 1),
            partial |-> FALSE, distance |-> Tenth]>>
         \o WholeMileSplits(segment, mileIndex + 1, wholeMiles - 1)

\* lines 922-985: the forEach callback
ProcessSegment(st, segment) ==
    LET segmentDistance == segment.distance
        remainingMileDistance == Tenth - st.currentMileDistance
        withHR == segment.avg_hr # 0
    IN  IF segmentDistance <= remainingMileDistance
        THEN [st EXCEPT
                 !.currentMileDistance = @ + segmentDistance,
                 !.currentMileTime = @ + segmentDistance * segment.pace,
                 !.currentMileHR = IF withHR THEN @ + segment.avg_hr ELSE @,
                 !.hrPointsCount = IF withHR THEN @ + 1 ELSE @]
        ELSE LET time == st.currentMileTime + remainingMileDistance * segment.pace
                 closed == [st EXCEPT
                               !.currentMileHR = IF withHR THEN @ + segment.avg_hr ELSE @,
                               !.hrPointsCount = IF withHR THEN @ + 1 ELSE @]
                 split == [mile |-> st.mileIndex, split_time |-> time,
                           split_pace |-> Frac(time, Tenth), avg_hr |-> MileHR(closed),
                           partial |-> FALSE, distance |-> Tenth]
                 distanceRemaining == segmentDistance - remainingMileDistance
                 wholeMiles == distanceRemaining \div Tenth
                 leftover == distanceRemaining - wholeMiles * Tenth
             IN  [ syntheticSplits |->
                       Append(st.syntheticSplits, split)
                           \o WholeMileSplits(segment, st.mileIndex + 1, wholeMiles),
                   mileIndex |-> st.mileIndex + 1 + wholeMiles,
                   currentMileDistance |-> leftover,
                   currentMileTime |-> leftover * segment.pace,
                   currentMileHR |-> IF leftover > 0 THEN segment.avg_hr ELSE 0,
                   hrPointsCount |-> IF leftover > 0 /\ withHR THEN 1 ELSE 0 ]

RECURSIVE ProcessSegments(_, _)
ProcessSegments(st, q) ==
    IF q = <<>> THEN st ELSE ProcessSegments(ProcessSegment(st, Head(q)), Tail(q))

\* lines 987-997: the final partial mile, kept when longer than 0.2 miles
FinalSplits(st) ==
    IF st.currentMileDistance > 2
    THEN Append(st.syntheticSplits,
             [mile |-> st.mileIndex, split_time |-> st.currentMileTime,
              split_pace |-> Frac(st.currentMileTime, st.currentMileDistance),
              avg_hr |-> MileHR(st), partial |-> TRUE,
              distance |-> st.currentMileDistance])
    ELSE st.syntheticSplits

\* lines 903-1003: splits generated from the segments, Null when none
SyntheticSplits(res) ==
    LET allSegments == SortByStart(res.fast_segments \o res.slow_segments)
    IN  IF Len(allSegments) > 0 /\ res.total_distance # 0
        THEN LET syntheticSplits ==
                     FinalSplits(ProcessSegments(
                         [syntheticSplits |-> <<>>, mileIndex |-> 1,
                          currentMileDistance |-> 0, currentMileTime |-> 0,
                          currentMileHR |-> 0, hrPointsCount |-> 0],
                         allSegments))
             IN  IF Len(syntheticSplits) > 0 THEN List(syntheticSplits) ELSE Null
        ELSE Null

\* findMileSplits(results): stored splits when there are some
findMileSplits(res) ==
    IF res.mile_splits # Null /\ res.mile_splits # List(<<>>) THEN res.mile_splits
    ELSE SyntheticSplits(res)

InitSplits ==
    /\ results \in AnalysisResults
    /\ mileSplitsData = NotRendered
    /\ SegmentsIdle
    /\ ChartsIdle
    /\ RunViewsIdle
    /\ MetricsIdle
    /\ PaceIdle
    /\ MoreIdle

\* the Mile Splits section renders
RenderMileSplits ==
    /\ mileSplitsData' = Rendered(findMileSplits(results))
    /\ UNCHANGED <<results, segVars, chartVars, runVars, metricsView, paceVars, moreVars>>

NextSplits == RenderMileSplits

SpecSplits == InitSplits /\ [][NextSplits]_vars

(* Claims about findMileSplits                                             *)

\* splits were generated from the segments
Generated ==
    /\ mileSplitsData.rendered
    /\ results.mile_splits \in {Null, List(<<>>)}
    /\ mileSplitsData.out # Null

TrackOf(res) == SortByStart(res.fast_segments \o res.slow_segments)

\* C5: the last generated split is partial iff the distance of the segments
\* is not a whole number of miles; a remainder gives a final partial split
\* with that remainder as its distance, a whole number of miles gives none.
C5_PartialIffRemainder ==
    Generated =>
        LET splits == mileSplitsData.out.list
            track == TrackOf(results)
            total == SumSeq([i \in 1..Len(track) |-> track[i].distance])
            remainder == total % Tenth
        IN  /\ splits[Len(splits)].partial <=> (remainder # 0)
            /\ remainder # 0 => splits[Len(splits)].distance = remainder
            /\ remainder = 0 => \A i \in 1..Len(splits) : ~splits[i].partial

\* C6: the generated splits cover the track: their times add up to the sum
\* of distance x pace of the segments, their distances to the sum of the
\* segment distances.
C6_CoveragePreserved ==
    Generated =>
        LET splits == mileSplitsData.out.list
            track == TrackOf(results)
        IN  /\ SumSeq([i \in 1..Len(splits) |-> splits[i].split_time])
                   = SumSeq([i \in 1..Len(track) |-> track[i].distance * track[i].pace])
            /\ SumSeq([i \in 1..Len(splits) |-> splits[i].distance])
                   = SumSeq([i \in 1..Len(track) |-> track[i].distance])


--------------------------------------------------------------------------
(* PaceConsistency (src/unnamed/part_007) and FatigueAnalysis              *)
(* (src/src/components/FatigueAnalysis.js)                                 *)
(* Paces are counted in tenths of a minute per mile.  A square root is     *)
(* never taken: the coefficient of variation is kept as its square.        *)

MilePaces == {0, 50, 51, 52, 54, 56, 80}

\* the run prop: data absent, an object with mile_splits, or the same
\* object as a JSON string
AnalysisRuns ==
    { [date |-> 1, total_distance |-> 31, data |-> x] :
          x \in {Null}
             \cup { [kind |-> k, mile_splits |-> [i \in 1..Len(q) |-> [pace |-> q[i]]]] :
                        k \in {"object", "string"},
                        q \in SeqsUpTo(MilePaces, MaxMileSplits) } }

\* lines 7-23: the mile splits the component works on, Null when it
\* renders nothing.  run.data.mile_splits of a string is undefined.
MileSplitsOf(r) ==
    IF r = Null \/ r.data = Null THEN Null
    ELSE IF r.data.kind = "string" THEN Null
    ELSE IF Len(r.data.mile_splits) < 3 THEN Null
    ELSE List(r.data.mile_splits)

PacesOf(mileSplits) == [i \in 1..Len(mileSplits) |-> mileSplits[i].pace]

\* paces.reduce((sum, pace) => sum + pace, 0) / paces.length
AvgPace(paces) == Frac(SumSeq(paces), Len(paces))

\* paces.reduce((sum, pace) => sum + Math.pow(pace - avgPace, 2), 0) / paces.length
RECURSIVE SumSquaredDeviations(_, _)
SumSquaredDeviations(paces, avgPace) ==
    IF paces = <<>> THEN Frac(0, 1)
    ELSE LET dev == FracSub(Frac(Head(paces), 1), avgPace)
         IN  FracAdd(FracMul(dev, dev), SumSquaredDeviations(Tail(paces), avgPace))
SampleVariance(paces) ==
    FracDiv(SumSquaredDeviations(paces, AvgPace(paces)), Frac(Len(paces) - 1, 1))
Variance(paces) ==
    FracDiv(SumSquaredDeviations(paces, AvgPace(paces)), Frac(Len(paces), 1))

\* cv = (stdDev / avgPace) * 100, squared; NaN when avgPace is 0 (then every
\* pace is 0 and stdDev is 0)
CvSquared(paces) ==
    LET avgPace == AvgPace(paces)
    IN  IF avgPace[1] = 0 THEN NaN
        ELSE FracMul(FracDiv(Variance(paces), FracMul(avgPace, avgPace)), Frac(10000, 1))

\* consistencyScore = Math.max(0, 100 - cv * 10): 0 when cv >= 10, NaN when
\* cv is NaN, else the real number 100 - 10 cv, kept as cv squared
ConsistencyScore(cvSq) ==
    IF cvSq = NaN THEN [nan |-> TRUE, zero |-> FALSE, cvSq |-> cvSq]
    ELSE [nan |-> FALSE, zero |-> FracLe(Frac(100, 1), cvSq), cvSq |-> cvSq]

\* consistencyScore >= t, for t in 0, 10, ..., 100
ScoreAtLeast(score, t) ==
    IF score.nan THEN FALSE
    ELSE IF score.zero THEN t <= 0
    ELSE LET k == (100 - t) \div 10
         IN  FracLe(score.cvSq, Frac(k * k, 1))

\* lines 52-68
Rating(score) ==
    IF ScoreAtLeast(score, 90) THEN "Excellent"
    ELSE IF ScoreAtLeast(score, 80) THEN "Good"
    ELSE IF ScoreAtLeast(score, 70) THEN "Average"
    ELSE IF ScoreAtLeast(score, 60) THEN "Fair"
    ELSE "Needs Work"

\* PaceConsistency({ run })
PaceConsistency(r) ==
    IF MileSplitsOf(r) = Null THEN Null
    ELSE LET paces == PacesOf(MileSplitsOf(r).list)
             score == ConsistencyScore(CvSquared(paces))
         IN  [avgPace |-> AvgPace(paces), consistencyScore |-> score,
              rating |-> Rating(score)]

\* lines 31-41: slope of the least-squares line of pace against mile 1..n
SlopeNoCount(paces) ==
    LET n == Len(paces)
        sumX == SumSeq([i \in 1..n |-> i])
        sumY == SumSeq(paces)
        sumXY == SumSeq([i \in 1..n |-> i * paces[i]])
        sumX2 == SumSeq([i \in 1..n |-> i * i])
    IN  Reduced(sumXY - sumX * sumY, n * sumX2 - sumX * sumX)
Slope(paces) ==
    LET n == Len(paces)
        sumX == SumSeq([i \in 1..n |-> i])
        sumY == SumSeq(paces)
        sumXY == SumSeq([i \in 1..n |-> i * paces[i]])
        sumX2 == SumSeq([i \in 1..n |-> i * i])
    IN  Reduced(n * sumXY - sumX * sumY, n * sumX2 - sumX * sumX)

\* fatigueRate = (slope / avgPace) * 100; NaN when both are 0
FatigueRate(paces) ==
    LET avgPace == AvgPace(paces)
    IN  IF avgPace[1] = 0 THEN NaN
        ELSE FracMul(FracDiv(Slope(paces), avgPace), Frac(100, 1))

\* line 137: (paces[paces.length-1] - paces[0]) / paces[0] * 100
TotalPaceChange(paces) ==
    FracMul(FracDiv(Frac(paces[Len(paces)] - paces[1], 1), Frac(paces[1], 1)), Frac(100, 1))

\* FatigueAnalysis({ run })
FatigueAnalysis(r) ==
    IF MileSplitsOf(r) = Null THEN Null
    ELSE LET paces == PacesOf(MileSplitsOf(r).list)
         IN  [slope |-> Slope(paces), fatigueRate |-> FatigueRate(paces),
              subtitle |-> IF Slope(paces)[1] > 0 THEN "Slowing" ELSE "Speeding up",
              totalPaceChange |-> TotalPaceChange(paces)]

InitRunViews ==
    /\ runProp \in AnalysisRuns
    /\ consistencyView = NotRendered
    /\ fatigueView = NotRendered
    /\ SegmentsIdle
    /\ ChartsIdle
    /\ SplitsIdle
    /\ MetricsIdle
    /\ PaceIdle
    /\ MoreIdle

RenderPaceConsistency ==
    /\ consistencyView' = Rendered(PaceConsistency(runProp))
    /\ UNCHANGED <<runProp, fatigueView, segVars, chartVars, splitVars, metricsView, paceVars, moreVars>>

RenderFatigueAnalysis ==
    /\ fatigueView' = Rendered(FatigueAnalysis(runProp))
    /\ UNCHANGED <<runProp, consistencyView, segVars, chartVars, splitVars, metricsView, paceVars, moreVars>>

NextRunViews == RenderPaceConsistency \/ RenderFatigueAnalysis

SpecRunViews == InitRunViews /\ [][NextRunViews]_vars

(* Claims about PaceConsistency and FatigueAnalysis                        *)

\* the run has at least 3 mile splits, all with a positive pace
PositivePaces ==
    /\ runProp.data # Null
    /\ Len(runProp.data.mile_splits) >= 3
    /\ \A i \in 1..Len(runProp.data.mile_splits) : runProp.data.mile_splits[i].pace > 0

RunPaces == [i \in 1..Len(runProp.data.mile_splits) |-> runProp.data.mile_splits[i].pace]

\* cv <= k, from the sums of the paces: with S the sum and Q the sum of
\* squares of n paces, cv^2 = 10^4 (n Q - S^2) / S^2
CvAtMost(k) ==
    LET n == Len(RunPaces)
        S == SumSeq(RunPaces)
        Q == SumSeq([i \in 1..n |-> RunPaces[i] * RunPaces[i]])
    IN  10000 * (n * Q - S * S) <= k * k * S * S
CvBelow(k) ==
    LET n == Len(RunPaces)
        S == SumSeq(RunPaces)
        Q == SumSeq([i \in 1..n |-> RunPaces[i] * RunPaces[i]])
    IN  10000 * (n * Q - S * S) < k * k * S * S

\* C7: with at least 3 positive paces the score max(0, 100 - cv*10) lies in
\* [0, 100] and the rating follows the fixed bands: Excellent iff score >=
\* 90 (cv <= 1), Good iff 80 <= score < 90, Average iff 70 <= score < 80,
\* Fair iff 60 <= score < 70, Needs Work iff score < 60.
C7_ScoreBoundedAndRated ==
    (consistencyView.rendered /\ consistencyView.out # Null /\ PositivePaces) =>
        LET v == consistencyView.out
        IN  /\ ~v.consistencyScore.nan
            /\ ScoreAtLeast(v.consistencyScore, 0)
            /\ v.consistencyScore.zero <=> ~CvBelow(10)
            /\ v.rating \in {"Excellent", "Good", "Average", "Fair", "Needs Work"}
            /\ v.rating = "Excellent" <=> CvAtMost(1)
            /\ v.rating = "Good" <=> ~CvAtMost(1) /\ CvAtMost(2)
            /\ v.rating = "Average" <=> ~CvAtMost(2) /\ CvAtMost(3)
            /\ v.rating = "Fair" <=> ~CvAtMost(3) /\ CvAtMost(4)
            /\ v.rating = "Needs Work" <=> ~CvAtMost(4)

\* C7 witness: a run of positive, uneven paces rated Fair with a score
\* strictly between 60 and 70
C7_Witness ==
    /\ consistencyView.rendered
    /\ consistencyView.out # Null
    /\ PositivePaces
    /\ consistencyView.out.rating = "Fair"
    /\ ~CvAtMost(3)
    /\ CvBelow(4)

Sign(x) == IF x > 0 THEN 1 ELSE IF x < 0 THEN -1 ELSE 0

\* C8: with at least 3 positive paces the fatigue rate has the sign of the
\* slope, the subtitle says Slowing exactly when the slope is positive, and
\* strictly increasing, constant and strictly decreasing paces give a
\* positive, zero and negative rate.
C8_FatigueSign ==
    (fatigueView.rendered /\ fatigueView.out # Null /\ PositivePaces) =>
        LET v == fatigueView.out
            n == Len(RunPaces)
        IN  /\ v.fatigueRate # NaN
            /\ Sign(v.fatigueRate[1]) = Sign(v.slope[1])
            /\ v.subtitle = "Slowing" <=> v.slope[1] > 0
            /\ (\A i \in 1..(n - 1) : RunPaces[i] < RunPaces[i + 1]) => v.fatigueRate[1] > 0
            /\ (\A i \in 1..(n - 1) : RunPaces[i] = RunPaces[i + 1]) => v.fatigueRate[1] = 0
            /\ (\A i \in 1..(n - 1) : RunPaces[i] > RunPaces[i + 1]) => v.fatigueRate[1] < 0

\* C8 witness: strictly increasing positive paces reported as Slowing
C8_Witness ==
    /\ fatigueView.rendered
    /\ fatigueView.out # Null
    /\ PositivePaces
    /\ \A i \in 1..(Len(RunPaces) - 1) : RunPaces[i] < RunPaces[i + 1]
    /\ fatigueView.out.subtitle = "Slowing"

\* a number that is neither NaN nor infinite
IsFiniteFraction(x) == x[2] # 0

\* C12: on a run they accept (3 mile splits or more) PaceConsistency and
\* FatigueAnalysis compute no NaN or infinite statistic, whatever the paces
\* (all 0, a first mile of 0), and the regression denominator
\* n*sum(i^2) - (sum(i))^2 is strictly positive.
C12_NoDivisionByZero ==
    /\ (consistencyView.rendered /\ consistencyView.out # Null) =>
           /\ ~consistencyView.out.consistencyScore.nan
           /\ IsFiniteFraction(consistencyView.out.consistencyScore.cvSq)
    /\ (fatigueView.rendered /\ fatigueView.out # Null) =>
           /\ IsFiniteFraction(fatigueView.out.slope)
           /\ IsFiniteFraction(fatigueView.out.fatigueRate)
           /\ IsFiniteFraction(fatigueView.out.totalPaceChange)
           /\ LET n == Len(RunPaces)
                  sumX == SumSeq([i \in 1..n |-> i])
                  sumX2 == SumSeq([i \in 1..n |-> i * i])
              IN  n * sumX2 - sumX * sumX > 0

--------------------------------------------------------------------------
(* The Advanced Metrics section  (src/src/App.js, lines 2557-2644, and     *)
(* src/src/components/AdvancedMetrics.js)                                  *)
(* A value is undefined, null, a number (a fraction, NaN included) or a    *)
(* string.                                                                 *)

Undefined == [undefined |-> TRUE]
Num(x) == [num |-> x]
Text(s) == [text |-> s]
IsNumber(v) == "num" \in DOMAIN v
IsString(v) == "text" \in DOMAIN v

\* Math.floor and Math.round (halves go up) of a finite number
MathFloor(x) == x[1] \div x[2]
MathRound(x) == (2 * x[1] + x[2]) \div (2 * x[2])

\* the value as a condition: null, undefined, 0, NaN and "" are falsy
Truthy(v) ==
    IF IsNumber(v) THEN v.num[1] # 0
    ELSE IF IsString(v) THEN v.text # ""
    ELSE FALSE

\* parseFloat of the strings of the model
ParseFloat(s) ==
    CASE s = "0" -> Num(Frac(0, 1))
      [] s = "45.25" -> Num(Frac(4525, 100))
      [] OTHER -> Num(NaN)

MetricKeys == {"vo2max", "training_load", "recovery_time"}

\* a metric as the server sends it at the top level of the results
DirectValues ==
    { Undefined, Null,
      Num(Frac(0, 1)), Num(Frac(25, 100)), Num(Frac(4525, 100)),
      Text("0"), Text("n/a") }

\* a metric inside results.data
NestedValues == { Undefined, Null, Num(Frac(0, 1)), Num(Frac(4525, 100)) }

\* the results, as far as the section reads them
MetricResults ==
    { [vo2max |-> a, training_load |-> b, recovery_time |-> c, data |-> n] :
          a \in DirectValues, b \in DirectValues, c \in DirectValues,
          n \in {Undefined} \cup [MetricKeys -> NestedValues] }

\* results?.data?.[key]
NestedMetric(res, key) == IF res.data = Undefined THEN Undefined ELSE res.data[key]

\* lines 2559-2627, for one metric: the direct property, else the nested
\* one, then parseFloat of a string
ExtractMetric(res, key) ==
    LET direct == res[key]
        first == IF direct # Undefined /\ direct # Null THEN direct ELSE Null
        nested == NestedMetric(res, key)
        second == IF ~Truthy(first) /\ nested # Undefined THEN nested ELSE first
    IN  IF IsString(second) THEN ParseFloat(second.text) ELSE second

\* a number as React writes it, to one decimal at most
NumberText(tenths) ==
    IF tenths % 10 = 0 THEN ToString(tenths \div 10)
    ELSE ToString(tenths \div 10) \o "." \o ToString(tenths % 10)

\* x.toFixed(1), x >= 0
ToFixed1(x) ==
    LET tenths == MathRound(FracMul(x, Frac(10, 1)))
    IN  ToString(tenths \div 10) \o "." \o ToString(tenths % 10)

\* AdvancedMetrics.js line 11
Vo2maxText(vo2max) == IF Truthy(vo2max) THEN ToFixed1(vo2max.num) ELSE "N/A"

\* AdvancedMetrics.js line 21
TrainingLoadText(trainingLoad) ==
    IF Truthy(trainingLoad) THEN ToString(MathRound(trainingLoad.num)) ELSE "N/A"

\* AdvancedMetrics.js line 32
RecoveryTimeText(recoveryTime) ==
    IF Truthy(recoveryTime)
    THEN NumberText(MathRound(FracMul(recoveryTime.num, Frac(10, 1))))
    ELSE "N/A"

\* AdvancedMetrics({ vo2max, trainingLoad, recoveryTime }): the props and
\* the three metric values shown
AdvancedMetrics(vo2max, trainingLoad, recoveryTime) ==
    [ props |-> [vo2max |-> vo2max, training_load |-> trainingLoad,
                 recovery_time |-> recoveryTime],
      shown |-> [vo2max |-> Vo2maxText(vo2max),
                 training_load |-> TrainingLoadText(trainingLoad),
                 recovery_time |-> RecoveryTimeText(recoveryTime)] ]

InitMetrics ==
    /\ results \in MetricResults
    /\ mileSplitsData = NotRendered
    /\ metricsView = NotRendered
    /\ SegmentsIdle
    /\ ChartsIdle
    /\ RunViewsIdle
    /\ PaceIdle
    /\ MoreIdle

\* the Advanced Metrics section renders
RenderAdvancedMetrics ==
    /\ metricsView' = Rendered(AdvancedMetrics(ExtractMetric(results, "vo2max"),
                                               ExtractMetric(results, "training_load"),
                                               ExtractMetric(results, "recovery_time")))
    /\ UNCHANGED <<splitVars, segVars, chartVars, runVars, paceVars, moreVars>>

NextMetrics == RenderAdvancedMetrics

SpecMetrics == InitMetrics /\ [][NextMetrics]_vars

(* Claims about the Advanced Metrics section                               *)

\* what the view shows for an absent metric
AbsentTexts(key) ==
    { AdvancedMetrics(v, v, v).shown[key] : v \in {Null, Undefined} }

\* C9: for vo2max, training load and recovery time, a computed value of 0
\* is shown neither as 'N/A' nor as what the view shows for an absent value.
C9_ZeroDistinctFromAbsent ==
    metricsView.rendered =>
        \A key \in MetricKeys :
            metricsView.out.props[key] = Num(Frac(0, 1)) =>
                /\ metricsView.out.shown[key] # "N/A"
                /\ metricsView.out.shown[key] \notin AbsentTexts(key)

--------------------------------------------------------------------------
(* App.formatPace  (src/src/App.js, lines 642-664)                         *)
(* A finite pace is a whole number of 1/128 minute, which a double holds   *)
(* exactly, as are the products by 60.                                     *)

MaxPaceTicks == 400

Infinity == <<1, 0>>
MinusInfinity == <<-1, 0>>

\* the sign the code returns for Infinity
InfinitySign == "<U+221E>"

FinitePaces == { Frac(n, 128) : n \in (-MaxPaceTicks)..MaxPaceTicks }

PaceValues ==
    {Null, Undefined} \cup { Num(x) : x \in {NaN, Infinity, MinusInfinity} \cup FinitePaces }

\* seconds < 10 ? '0' + seconds : seconds
SecondsText(seconds) == IF seconds < 10 THEN "0" \o ToString(seconds) ELSE ToString(seconds)

\* lines 647-663: a finite pace
FormatFinite(x) ==
    LET minutes == MathFloor(x)
        seconds == MathRound(FracMul(FracSub(x, Frac(minutes, 1)), Frac(60, 1)))
    IN  IF seconds = 60 THEN ToString(minutes + 1) \o ":00"
        ELSE ToString(minutes) \o ":" \o SecondsText(seconds)

\* a pace of 0 taken for a missing one
formatPaceFalsyAsMissing(p) ==
    IF ~Truthy(p) THEN "N/A"
    ELSE IF p = Num(Infinity) THEN InfinitySign
    ELSE IF p = Num(MinusInfinity) THEN "-" \o InfinitySign
    ELSE FormatFinite(p.num)

\* formatPace(pace)
formatPace(p) ==
    IF p = Null \/ p = Undefined \/ p = Num(NaN) THEN "N/A"
    ELSE IF p = Num(Infinity) THEN InfinitySign
    ELSE IF p = Num(MinusInfinity) THEN "-" \o InfinitySign
    ELSE FormatFinite(p.num)

InitPace ==
    /\ paceArg \in PaceValues
    /\ paceText = NotRendered
    /\ SegmentsIdle
    /\ ChartsIdle
    /\ SplitsIdle
    /\ RunViewsIdle
    /\ MetricsIdle
    /\ MoreIdle

\* a cell or a label calls formatPace
CallFormatPace ==
    /\ paceText' = Rendered(formatPace(paceArg))
    /\ UNCHANGED <<paceArg, segVars, chartVars, splitVars, runVars, metricsView, moreVars>>

NextPace == CallFormatPace

SpecPace == InitPace /\ [][NextPace]_vars

(* Claims about formatPace                                                 *)

AbsentPaces == {Null, Undefined, Num(NaN)}
InfinitePaces == {Num(Infinity), Num(MinusInfinity)}

\* the texts of each class of pace
AbsentPaceTexts == {"N/A"}
InfinitePaceTexts == {InfinitySign, "-" \o InfinitySign}

\* minutes:seconds, seconds written with two digits and below 60
MinutesSecondsText(minutes, seconds) ==
    ToString(minutes) \o ":" \o ToString(seconds \div 10) \o ToString(seconds % 10)
FinitePaceTexts ==
    { MinutesSecondsText(m, sec) :
          m \in (-(MaxPaceTicks \div 128) - 1)..((MaxPaceTicks \div 128) + 1), sec \in 0..59 }

\* C10: formatPace gives 'N/A' for a missing pace (null, undefined, NaN),
\* the infinity sign with its sign for an infinite pace, and for every
\* finite pace, 0 included, the minutes:seconds text of the pace to the
\* nearest second; texts of different classes are never the same.
C10_ThreeWayDistinction ==
    /\ AbsentPaceTexts \cap InfinitePaceTexts = {}
    /\ AbsentPaceTexts \cap FinitePaceTexts = {}
    /\ InfinitePaceTexts \cap FinitePaceTexts = {}
    /\ paceText.rendered =>
           IF paceArg \in AbsentPaces THEN paceText.out = "N/A"
           ELSE IF paceArg = Num(Infinity) THEN paceText.out = InfinitySign
           ELSE IF paceArg = Num(MinusInfinity) THEN paceText.out = "-" \o InfinitySign
           ELSE /\ paceText.out \in FinitePaceTexts
                /\ \E m \in (-(MaxPaceTicks \div 128) - 1)..((MaxPaceTicks \div 128) + 1), sec \in 0..59 :
                       /\ paceText.out = MinutesSecondsText(m, sec)
                       /\ 60 * m + sec = MathRound(FracMul(paceArg.num, Frac(60, 1)))

\* a pace of 0 was formatted
C10_Witness ==
    /\ paceText.rendered
    /\ paceArg = Num(Frac(0, 128))
    /\ paceText.out = "0:00"

--------------------------------------------------------------------------
(* CustomSegments: the saved segments and localStorage                     *)
(* (src/src/components/CustomSegments.js, lines 14-114 and 409-433)        *)
(* A JSON text is kept as its tokens: the list of the objects written,     *)
(* each field a number literal, a string literal or null.                  *)

MaxSavedSegments == 2
MaxSegmentId == 3

JsonNumber(x) == [json |-> "number", literal |-> x]
JsonString(s) == [json |-> "string", chars |-> s]
JsonNull == [json |-> "null"]
JsonArray(items) == [json |-> "array", items |-> items]
CorruptText == [json |-> "corrupt"]

IsFiniteNumber(v) == IsNumber(v) /\ v.num[2] # 0

\* lines 16-24: the replacer of safeStringify
Replacer(value) ==
    IF IsNumber(value) /\ ~IsFiniteNumber(value)
    THEN IF value = Num(Infinity) THEN Text("Infinity")
         ELSE IF value = Num(MinusInfinity) THEN Text("-Infinity")
         ELSE Null
    ELSE value

\* JSON.stringify of a number, a string or null
StringifyValue(v) ==
    IF IsNumber(v) THEN JsonNumber(v.num)
    ELSE IF IsString(v) THEN JsonString(v.text)
    ELSE JsonNull

\* safeStringify(obj), obj a list of segment objects
safeStringify(obj) ==
    JsonArray([i \in 1..Len(obj) |->
                  [f \in DOMAIN obj[i] |-> StringifyValue(Replacer(obj[i][f]))]])

\* JSON.parse of one literal
ParseValue(t) ==
    IF t.json = "number" THEN Num(t.literal)
    ELSE IF t.json = "string" THEN Text(t.chars)
    ELSE Null

\* lines 30-35: the reviver of safeParse
Reviver(value) ==
    IF value = Text("Infinity") THEN Num(Infinity)
    ELSE IF value = Text("-Infinity") THEN Num(MinusInfinity)
    ELSE value

\* safeParse(jsonString): Null when JSON.parse throws
safeParse(jsonString) ==
    IF jsonString = CorruptText THEN Null
    ELSE List([i \in 1..Len(jsonString.items) |->
                  [f \in DOMAIN jsonString.items[i] |->
                      Reviver(ParseValue(jsonString.items[i][f]))]])

\* the values a field of a segment object may hold
SegmentNames == {Text("Hill"), Text("Infinity"), Text("-Infinity")}
SegmentStarts == {Num(Frac(0, 1)), Num(NaN), Num(Infinity), Num(MinusInfinity)}
SegmentEnds == {Num(Frac(1, 1)), Num(Frac(25, 10))}
SegmentObjects ==
    { [id |-> Num(Frac(1, 1)), name |-> a, startDistance |-> b, endDistance |-> c] :
          a \in SegmentNames, b \in SegmentStarts, c \in SegmentEnds }

\* what an earlier session may have left in localStorage
StoredTexts ==
    { Null, CorruptText }
        \cup { safeStringify(q) : q \in SeqsUpTo(SegmentObjects, MaxSavedSegments) }

\* lines 409-429, without a current run
DemoSegments ==
    << [id |-> Num(Frac(1, 1)), name |-> Text("First Mile"),
        startDistance |-> Num(Frac(0, 1)), endDistance |-> Num(Frac(1, 1))],
       [id |-> Num(Frac(2, 1)), name |-> Text("Last Mile"),
        startDistance |-> Num(Frac(2, 1)), endDistance |-> Num(Frac(3, 1))],
       [id |-> Num(Frac(3, 1)), name |-> Text("Middle Section"),
        startDistance |-> Num(Frac(1, 1)), endDistance |-> Num(Frac(2, 1))] >>

\* lines 43-66: the segments shown after loading the stored text
LoadSegments(stored) ==
    IF stored = Null THEN DemoSegments
    ELSE LET parsed == safeParse(stored)
         IN  IF parsed # Null /\ Len(parsed.list) > 0 THEN parsed.list ELSE DemoSegments

\* the component after its mount effects: segments loaded, then saved
InitStore ==
    /\ \E stored \in StoredTexts : segments = LoadSegments(stored)
    /\ savedSegments = safeStringify(segments)
    /\ BaseIdle
    /\ ApiIdle
    /\ RetryIdle
    /\ AppIdle
    /\ HistoryIdle

\* Date.now() for a new segment: above every id in use
NextId(q) ==
    LET used == {0} \cup {q[i].id.num[1] : i \in {j \in 1..Len(q) : IsFiniteNumber(q[j].id)}}
    IN  (CHOOSE m \in used : \A k \in used : k <= m) + 1

\* handleAddSegment, the name not blank
handleAddSegment(name, startDistance, endDistance) ==
    /\ Len(segments) < MaxSavedSegments
    /\ NextId(segments) <= MaxSegmentId
    /\ LET newSegment == [id |-> Num(Frac(NextId(segments), 1)), name |-> name,
                          startDistance |-> startDistance, endDistance |-> endDistance]
           updatedSegments == Append(segments, newSegment)
       IN  /\ segments' = updatedSegments
           /\ savedSegments' = safeStringify(updatedSegments)
    /\ UNCHANGED <<baseVars, apiVars, retryVars, appVars, histVars>>

\* handleDeleteSegment(id)
handleDeleteSegment(id) ==
    /\ LET updatedSegments == SelectSeq(segments, LAMBDA g : g.id # id)
       IN  /\ segments' = updatedSegments
           /\ savedSegments' = safeStringify(updatedSegments)
    /\ UNCHANGED <<baseVars, apiVars, retryVars, appVars, histVars>>

\* the component mounts again and loads what it saved
ReloadSegments ==
    /\ segments' = LoadSegments(savedSegments)
    /\ savedSegments' = safeStringify(segments')
    /\ UNCHANGED <<baseVars, apiVars, retryVars, appVars, histVars>>

NextStore ==
    \/ \E name \in SegmentNames, a \in {Num(Frac(0, 1)), Num(NaN)}, b \in SegmentEnds :
           handleAddSegment(name, a, b)
    \/ \E i \in 1..Len(segments) : handleDeleteSegment(segments[i].id)
    \/ ReloadSegments

SpecStore == InitStore /\ [][NextStore]_vars

(* Claims about safeStringify and safeParse                                *)

\* the list with every NaN replaced by null
NaNAsNull(q) ==
    [i \in 1..Len(q) |->
        [f \in DOMAIN q[i] |-> IF q[i][f] = Num(NaN) THEN Null ELSE q[i][f]]]

\* C11: safeParse(safeStringify(segments)) gives back the list of segments:
\* finite numbers, the infinities and the strings unchanged and of the same
\* type, NaN alone changed, to null.
C11_RoundTrip ==
    savedSegments # Null =>
        safeParse(savedSegments) = List(NaNAsNull(segments))

--------------------------------------------------------------------------
(* ApiService  (src/src/services/ApiService.js)                            *)
(* Every call of fetchRunHistory or deleteRun is a record of calls.  A     *)
(* call that awaits fetchWithCORS has sent one request; the server answers *)
(* it in one step and the call resumes in a later one, so calls in flight  *)
(* interleave.  Time is counted in minutes.                                *)

CACHE_EXPIRY == 5
MaxCalls == 3
MaxServerRuns == 2

\* the instants at which something happens: the start, then CACHE_EXPIRY
\* later to the minute, then one minute past it
Instants == {0, CACHE_EXPIRY, CACHE_EXPIRY + 1}

\* a response body that is no array
NotAnArray == [notArray |-> TRUE]
IsArray(body) == "list" \in DOMAIN body

\* fetchWithCORS resolved with the body, or threw
Resolved(body) == [ok |-> TRUE, body |-> body]
Threw == [ok |-> FALSE]

InitApi ==
    /\ cachedRunHistory = Null
    /\ lastFetchTime = 0
    /\ clock = 0
    /\ serverRuns = [i \in 1..MaxServerRuns |-> i]
    /\ calls = <<>>
    /\ BaseIdle
    /\ StoreIdle
    /\ RetryIdle
    /\ AppIdle
    /\ HistoryIdle

\* the runs whose deleteRun has resolved true
DeletedRuns ==
    { calls[i].runId : i \in { j \in 1..Len(calls) :
          calls[j].op = "deleteRun" /\ calls[j].status = "resolved" /\ calls[j].result } }

\* the cache taken as expired from CACHE_EXPIRY on
CacheExpiredFromExpiry(now) == now - lastFetchTime >= CACHE_EXPIRY

\* line 14: cacheExpired
CacheExpired(now) == now - lastFetchTime > CACHE_EXPIRY

\* lines 13-20 and 24: fetchRunHistory up to its return or its await
StartFetchRunHistory(forceRefresh) ==
    /\ Len(calls) < MaxCalls
    /\ LET now == clock
           cacheExpired == CacheExpired(now)
           called == [op |-> "fetchRunHistory", forceRefresh |-> forceRefresh, now |-> now,
                      cacheAtStart |-> cachedRunHistory, lastFetchAtStart |-> lastFetchTime,
                      deletedAtStart |-> DeletedRuns]
       IN  IF cachedRunHistory # Null /\ ~cacheExpired /\ ~forceRefresh
           THEN calls' = Append(calls, called @@
                    [status |-> "resolved", requests |-> 0, request |-> "none",
                     response |-> Null, from |-> "cache", result |-> cachedRunHistory])
           ELSE calls' = Append(calls, called @@
                    [status |-> "awaiting", requests |-> 1, request |-> "sent",
                     response |-> Null, from |-> "none", result |-> Null])
    /\ UNCHANGED <<cachedRunHistory, lastFetchTime, clock, serverRuns, baseVars, storeVars, retryVars, appVars, histVars>>

\* the server answers GET /runs, or the request fails
AnswerRuns(i, response) ==
    /\ calls[i].op = "fetchRunHistory"
    /\ calls[i].request = "sent"
    /\ calls' = [calls EXCEPT ![i].request = "answered", ![i].response = response]
    /\ UNCHANGED <<cachedRunHistory, lastFetchTime, clock, serverRuns, baseVars, storeVars, retryVars, appVars, histVars>>

\* lines 27-33 and 34-43: fetchRunHistory after its await
ResumeFetchRunHistory(i) ==
    /\ calls[i].op = "fetchRunHistory"
    /\ calls[i].request = "answered"
    /\ IF calls[i].response.ok
       THEN LET data == calls[i].response.body
                runsArray == IF IsArray(data) THEN data ELSE List(<<>>)
            IN  /\ cachedRunHistory' = runsArray
                /\ lastFetchTime' = calls[i].now
                /\ calls' = [calls EXCEPT ![i].status = "resolved", ![i].request = "done",
                                          ![i].from = "network", ![i].result = runsArray]
       ELSE /\ calls' = [calls EXCEPT ![i].status = "resolved", ![i].request = "done",
                                      ![i].from = "fallback",
                                      ![i].result = IF cachedRunHistory # Null
                                                    THEN cachedRunHistory ELSE List(<<>>)]
            /\ UNCHANGED <<cachedRunHistory, lastFetchTime>>
    /\ UNCHANGED <<clock, serverRuns, baseVars, storeVars, retryVars, appVars, histVars>>

\* lines 76-79: deleteRun up to its await
StartDeleteRun(runId) ==
    /\ Len(calls) < MaxCalls
    /\ calls' = Append(calls,
           [op |-> "deleteRun", runId |-> runId, status |-> "awaiting", requests |-> 1,
            request |-> "sent", response |-> Null, result |-> FALSE,
            cacheAtStart |-> cachedRunHistory])
    /\ UNCHANGED <<cachedRunHistory, lastFetchTime, clock, serverRuns, baseVars, storeVars, retryVars, appVars, histVars>>

\* the server deletes the run and answers, or the request fails
AnswerDelete(i, ok) ==
    /\ calls[i].op = "deleteRun"
    /\ calls[i].request = "sent"
    /\ IF ok
       THEN /\ \E k \in 1..Len(serverRuns) : serverRuns[k] = calls[i].runId
            /\ serverRuns' = SelectSeq(serverRuns, LAMBDA r : r # calls[i].runId)
            /\ calls' = [calls EXCEPT ![i].request = "answered",
                                      ![i].response = Resolved(NotAnArray)]
       ELSE /\ serverRuns' = serverRuns
            /\ calls' = [calls EXCEPT ![i].request = "answered", ![i].response = Threw]
    /\ UNCHANGED <<cachedRunHistory, lastFetchTime, clock, baseVars, storeVars, retryVars, appVars, histVars>>

\* deleteRun clearing the cache whatever the outcome
ResumeDeleteRunAlwaysClears(i) ==
    /\ calls[i].op = "deleteRun"
    /\ calls[i].request = "answered"
    /\ cachedRunHistory' = Null
    /\ lastFetchTime' = 0
    /\ calls' = [calls EXCEPT ![i].status = "resolved", ![i].request = "done",
                              ![i].result = calls[i].response.ok]
    /\ UNCHANGED <<clock, serverRuns, baseVars, storeVars, retryVars, appVars, histVars>>

\* lines 81-87, clearCache included: deleteRun after its await
ResumeDeleteRun(i) ==
    /\ calls[i].op = "deleteRun"
    /\ calls[i].request = "answered"
    /\ IF calls[i].response.ok
       THEN /\ cachedRunHistory' = Null
            /\ lastFetchTime' = 0
            /\ calls' = [calls EXCEPT ![i].status = "resolved", ![i].request = "done",
                                      ![i].result = TRUE]
       ELSE /\ calls' = [calls EXCEPT ![i].status = "resolved", ![i].request = "done",
                                      ![i].result = FALSE]
            /\ UNCHANGED <<cachedRunHistory, lastFetchTime>>
    /\ UNCHANGED <<clock, serverRuns, baseVars, storeVars, retryVars, appVars, histVars>>

\* time passes, up to the next instant
Tick ==
    /\ \E t \in Instants : t > clock
    /\ clock' = CHOOSE t \in Instants : t > clock /\ \A u \in Instants : u > clock => t <= u
    /\ UNCHANGED <<cachedRunHistory, lastFetchTime, serverRuns, calls, baseVars, storeVars, retryVars, appVars, histVars>>

NextApi ==
    \/ \E forceRefresh \in BOOLEAN : StartFetchRunHistory(forceRefresh)
    \/ \E i \in 1..Len(calls) :
           \E response \in {Resolved(List(serverRuns)), Resolved(NotAnArray), Threw} :
               AnswerRuns(i, response)
    \/ \E i \in 1..Len(calls) : ResumeFetchRunHistory(i)
    \/ \E runId \in 1..MaxServerRuns : StartDeleteRun(runId)
    \/ \E i \in 1..Len(calls), ok \in BOOLEAN : AnswerDelete(i, ok)
    \/ \E i \in 1..Len(calls) : ResumeDeleteRun(i)
    \/ Tick

SpecApi == InitApi /\ [][NextApi]_vars

(* Claims about ApiService                                                 *)

FetchCalls == { i \in 1..Len(calls) : calls[i].op = "fetchRunHistory" }
DeleteCalls == { i \in 1..Len(calls) : calls[i].op = "deleteRun" }

\* the call found a cached list no older than CACHE_EXPIRY and was not forced
FreshCacheAtStart(c) ==
    /\ c.cacheAtStart # Null
    /\ c.now - c.lastFetchAtStart <= CACHE_EXPIRY
    /\ ~c.forceRefresh

\* the step in which call i resumes after its request
Resumes(i) == i <= Len(calls) /\ calls[i].request = "answered" /\ calls'[i].request = "done"

ArrayOrEmpty(body) == IF IsArray(body) THEN body ELSE List(<<>>)

\* C13: fetchRunHistory returns the cached list without a request iff a
\* cached list exists, at most CACHE_EXPIRY has passed since the start of
\* the fetch that filled it and forceRefresh is false; otherwise it sends
\* exactly one request, and on success the response, or [] for a body that
\* is no array, becomes the cache, dated at the start of the call.
C13_CacheHitIffFresh ==
    /\ [](\A i \in FetchCalls :
             /\ FreshCacheAtStart(calls[i]) <=>
                    /\ calls[i].requests = 0
                    /\ calls[i].status = "resolved"
                    /\ calls[i].result = calls[i].cacheAtStart
             /\ ~FreshCacheAtStart(calls[i]) => calls[i].requests = 1)
    /\ [][\A i \in FetchCalls :
             (Resumes(i) /\ calls[i].response.ok) =>
                 /\ cachedRunHistory' = ArrayOrEmpty(calls[i].response.body)
                 /\ calls'[i].result = cachedRunHistory'
                 /\ lastFetchTime' = calls[i].now]_vars

\* a call exactly CACHE_EXPIRY after the fetch that filled the cache was
\* served from the cache, and a call one minute later sent a request
C13_Witness ==
    \E i \in FetchCalls, j \in FetchCalls, k \in FetchCalls :
        /\ calls[i].from = "network" /\ calls[i].status = "resolved"
        /\ calls[j].from = "cache" /\ calls[j].now - calls[i].now = CACHE_EXPIRY
        /\ calls[j].lastFetchAtStart = calls[i].now
        /\ calls[k].requests = 1 /\ ~calls[k].forceRefresh
        /\ calls[k].cacheAtStart # Null
        /\ calls[k].now - calls[k].lastFetchAtStart > CACHE_EXPIRY

\* the ids of a list of runs
RunIdsIn(body) == { body.list[k] : k \in 1..Len(body.list) }

\* C14: once deleteRun(id) has resolved true, no fetchRunHistory call that
\* starts later returns a cached list that still holds run id, whatever the
\* interleaving of the calls.
C14_NoStaleListAfterDelete ==
    \A i \in FetchCalls :
        (calls[i].status = "resolved" /\ calls[i].from \in {"cache", "fallback"}) =>
            calls[i].deletedAtStart \cap RunIdsIn(calls[i].result) = {}

\* C15: fetchRunHistory always resolves to an array; when its request fails
\* it resolves to the cached list if there is one, expired or not, else to
\* [], and leaves cachedRunHistory and lastFetchTime as they are; a failed
\* deleteRun resolves false and leaves the cache as it is.
C15_FailuresKeepCache ==
    /\ [](\A i \in FetchCalls : calls[i].status = "resolved" => IsArray(calls[i].result))
    /\ [][\A i \in FetchCalls :
             (Resumes(i) /\ ~calls[i].response.ok) =>
                 /\ calls'[i].status = "resolved"
                 /\ calls'[i].result =
                        IF cachedRunHistory # Null THEN cachedRunHistory ELSE List(<<>>)
                 /\ UNCHANGED <<cachedRunHistory, lastFetchTime>>]_vars
    /\ [][\A i \in DeleteCalls :
             (Resumes(i) /\ ~calls[i].response.ok) =>
                 /\ calls'[i].status = "resolved"
                 /\ calls'[i].result = FALSE
                 /\ UNCHANGED <<cachedRunHistory, lastFetchTime>>]_vars

\* a failed fetch fell back on an expired cached list, and a deleteRun
\* failed while a list was cached
C15_Witness ==
    /\ cachedRunHistory # Null
    /\ \E i \in FetchCalls :
           /\ calls[i].status = "resolved" /\ calls[i].from = "fallback"
           /\ calls[i].cacheAtStart # Null /\ ~calls[i].forceRefresh
           /\ calls[i].now - calls[i].lastFetchAtStart > CACHE_EXPIRY
           /\ calls[i].result = calls[i].cacheAtStart
    /\ \E j \in DeleteCalls :
           /\ calls[j].status = "resolved" /\ ~calls[j].result
           /\ calls[j].cacheAtStart # Null

--------------------------------------------------------------------------
(* fetchWithRetry  (src/src/services/fetchService.js, lines 41-52)         *)
(* A text is the sequence of its characters.                               *)

MaxRetries == 3

NetworkWord == <<"n", "e", "t", "w", "o", "r", "k">>

\* text.includes(pattern)
Includes(text, pattern) ==
    \E i \in 1..(Len(text) - Len(pattern) + 1) :
        SubSeq(text, i, i + Len(pattern) - 1) = pattern

\* messages of the errors fetchWithCORS throws
ErrorMessages ==
    { <<"n", "e", "t", "w", "o", "r", "k", " ", "d", "o", "w", "n">>,
      <<"a", " ">> \o NetworkWord \o <<"s">>,
      <<"N", "e", "t", "w", "o", "r", "k", "E", "r", "r", "o", "r">>,
      <<"H", "T", "T", "P", " ", "5", "0", "0">> }

\* what one call of fetchWithCORS does: it resolves with a body or throws
FetchOutcomes ==
    { [ok |-> TRUE, body |-> b] : b \in {List(<<>>), NotAnArray} }
        \cup { [ok |-> FALSE, message |-> m] : m \in ErrorMessages }

InitRetry ==
    /\ \E retries \in 0..MaxRetries :
           retryCall = [given |-> retries, retries |-> retries, status |-> "running",
                        outcome |-> Null]
    /\ fetchLog = <<>>
    /\ BaseIdle
    /\ StoreIdle
    /\ ApiIdle
    /\ AppIdle
    /\ HistoryIdle

\* every failure retried while attempts are left
RethrowsOnlyWhenSpent(retries, error) == retries = 0

\* line 45
Rethrows(retries, error) == retries = 0 \/ ~Includes(error.message, NetworkWord)

\* fetchWithRetry(url, options, retries): one call of fetchWithCORS and
\* what follows it
fetchWithRetry(outcome) ==
    /\ retryCall # Null
    /\ retryCall.status = "running"
    /\ fetchLog' = Append(fetchLog, outcome)
    /\ IF outcome.ok
       THEN retryCall' = [retryCall EXCEPT !.status = "returned", !.outcome = outcome]
       ELSE IF Rethrows(retryCall.retries, outcome)
            THEN retryCall' = [retryCall EXCEPT !.status = "threw", !.outcome = outcome]
            ELSE retryCall' = [retryCall EXCEPT !.retries = retryCall.retries - 1]
    /\ UNCHANGED <<baseVars, storeVars, apiVars, appVars, histVars>>

NextRetry == \E outcome \in FetchOutcomes : fetchWithRetry(outcome)

SpecRetry == InitRetry /\ [][NextRetry]_vars

(* Claims about fetchWithRetry                                             *)

NetworkFailure(outcome) == ~outcome.ok /\ Includes(outcome.message, NetworkWord)

\* C16: fetchWithRetry makes at most retries + 1 calls of fetchWithCORS and
\* is over after that many; it returns the first successful response, tries
\* again only after a failure whose message contains 'network', and throws
\* at once any other error and the error of the last attempt allowed.
C16_RetryBounded ==
    retryCall # Null =>
        LET n == Len(fetchLog)
        IN  /\ n <= retryCall.given + 1
            /\ \A i \in 1..(n - 1) : NetworkFailure(fetchLog[i])
            /\ retryCall.status = "running" =>
                   /\ n <= retryCall.given
                   /\ \A i \in 1..n : NetworkFailure(fetchLog[i])
            /\ retryCall.status = "returned" =>
                   /\ n >= 1 /\ fetchLog[n].ok
                   /\ retryCall.outcome = fetchLog[n]
            /\ retryCall.status = "threw" =>
                   /\ n >= 1 /\ ~fetchLog[n].ok
                   /\ retryCall.outcome = fetchLog[n]
                   /\ ~NetworkFailure(fetchLog[n]) \/ n = retryCall.given + 1
            /\ n = retryCall.given + 1 => retryCall.status # "running"

\* the default of 3 retries was used up on network failures and the error
\* of the fourth attempt thrown
C16_Witness ==
    /\ retryCall # Null
    /\ retryCall.given = 3
    /\ Len(fetchLog) = 4
    /\ retryCall.status = "threw"
    /\ NetworkFailure(fetchLog[4])

--------------------------------------------------------------------------
(* App: run history, comparison, deletion and upload (src/src/App.js)      *)
(* The body of a response is kept as its JSON tokens: a list of objects,   *)
(* each an ordered list of members, so that what follows a value (a comma  *)
(* or the closing brace) and a space after the colon are part of the text. *)
(* requests holds the asynchronous handlers started, in order of start: a  *)
(* place tells which handler awaits which fetch, or that it has returned.  *)
(* The response arrives and the handler resumes in one step.               *)

MaxRunId == 2
MaxRequests == 3

\* a handler that has returned, and a handler that awaits its first fetch
NoCall == [op |-> "none", runId |-> 0, stage |-> "idle"]
Call(op, runId) == [op |-> op, runId |-> runId, stage |-> "fetch"]

RunIds == 1..MaxRunId

\* Infinity, -Infinity or NaN written without quotes
BareLiteral(word) == [json |-> "bare", word |-> word]
Member(key, value, space) == [key |-> key, value |-> value, space |-> space]
JsonObject(members) == [json |-> "object", members |-> members]

\* lines 760-763: the three replacements, on one member value; beforeComma
\* tells whether a comma follows the value
SanitizedValue(member, beforeComma) ==
    IF member.value.json = "bare" /\ ~member.space /\ beforeComma
    THEN IF member.value.word = "Infinity" THEN JsonString("Infinity")
         ELSE IF member.value.word = "-Infinity" THEN JsonString("-Infinity")
         ELSE JsonNull
    ELSE member.value

SanitizedObject(object) ==
    JsonObject([k \in 1..Len(object.members) |->
                   Member(object.members[k].key,
                          SanitizedValue(object.members[k], k < Len(object.members)),
                          object.members[k].space)])

Sanitized(jsonString) ==
    IF jsonString.json = "array"
    THEN JsonArray([i \in 1..Len(jsonString.items) |-> SanitizedObject(jsonString.items[i])])
    ELSE IF jsonString.json = "object" THEN SanitizedObject(jsonString)
    ELSE jsonString

\* JSON.parse throws a SyntaxError
ObjectHasBareLiteral(object) ==
    \E k \in 1..Len(object.members) : object.members[k].value.json = "bare"

JsonParseThrows(text) ==
    IF text.json = "array"
    THEN \E i \in 1..Len(text.items) : ObjectHasBareLiteral(text.items[i])
    ELSE IF text.json = "object" THEN ObjectHasBareLiteral(text)
    ELSE TRUE

\* lines 765-769: the reviver
InfinityReviver(value) ==
    IF value = Text("Infinity") THEN Num(Infinity)
    ELSE IF value = Text("-Infinity") THEN Num(MinusInfinity)
    ELSE value

\* JSON.parse of an object with the reviver: the last member of a key wins
ParsedObject(object) ==
    [key \in { object.members[k].key : k \in 1..Len(object.members) } |->
        LET last == CHOOSE k \in 1..Len(object.members) :
                        /\ object.members[k].key = key
                        /\ \A j \in (k + 1)..Len(object.members) : object.members[j].key # key
        IN InfinityReviver(ParseValue(object.members[last].value))]

JsonParse(text) ==
    IF text.json = "array"
    THEN List([i \in 1..Len(text.items) |-> ParsedObject(text.items[i])])
    ELSE ParsedObject(text)

\* lines 757-775
safelyParseJSON(jsonString) ==
    LET sanitized == Sanitized(jsonString)
    IN IF JsonParseThrows(sanitized) THEN Null ELSE JsonParse(sanitized)

\* the bodies GET /runs may answer with when the server holds the runs ids
PaceLiterals ==
    { JsonNumber(Frac(9, 1)), BareLiteral("Infinity"), BareLiteral("-Infinity"),
      BareLiteral("NaN") }

RunObject(id, pace, paceFirst, space) ==
    LET idMember == Member("id", JsonNumber(Frac(id, 1)), FALSE)
        paceMember == Member("avg_pace", pace, space)
    IN JsonObject(IF paceFirst THEN <<paceMember, idMember>> ELSE <<idMember, paceMember>>)

ErrorBody == JsonObject(<<Member("error", JsonString("Not authenticated"), FALSE)>>)

\* how the pace of every run is written: the literal, whether the member
\* comes first (a comma follows) and whether a space follows the colon
PaceStyles ==
    { [pace |-> JsonNumber(Frac(9, 1)), paceFirst |-> FALSE, space |-> FALSE] }
    \cup { [pace |-> pace, paceFirst |-> TRUE, space |-> FALSE] :
               pace \in PaceLiterals \ {JsonNumber(Frac(9, 1))} }
    \cup { [pace |-> BareLiteral(word), paceFirst |-> FALSE, space |-> FALSE] :
               word \in {"Infinity", "NaN"} }
    \cup { [pace |-> BareLiteral("Infinity"), paceFirst |-> TRUE, space |-> TRUE] }

RunsTexts(ids) ==
    { JsonArray([i \in 1..Len(ids) |->
                    RunObject(ids[i], style.pace, style.paceFirst, style.space)]) :
          style \in PaceStyles }
    \cup { ErrorBody, CorruptText }

\* fetch rejected (network failure), or resolved with a response
FetchRejected(message) == [rejected |-> TRUE, message |-> message]
Response(status, body) == [rejected |-> FALSE, status |-> status, body |-> body]
ResponseOk(response) == response.status \in 200..299

\* the user the session belongs to
LoggedInUser == Num(Frac(1, 1))

\* lines 1056-1083: checkAuth has answered authenticated
InitApp ==
    /\ runHistory = List(<<>>)
    /\ compareMode = FALSE
    /\ comparedRuns = <<>>
    /\ appError = ""
    /\ userId = LoggedInUser
    /\ loading = FALSE
    /\ analysisVisible = FALSE
    /\ selectedFile = Null
    /\ requests = <<>>
    /\ results = Null
    /\ mileSplitsData = NotRendered
    /\ serverRuns = [i \in RunIds |-> i]
    /\ cachedRunHistory = Null
    /\ lastFetchTime = 0
    /\ clock = 0
    /\ calls = <<>>
    /\ SegmentsIdle
    /\ ChartsIdle
    /\ RunViewsIdle
    /\ MetricsIdle
    /\ PaceIdle
    /\ StoreIdle
    /\ RetryIdle
    /\ HistoryIdle

\* what no App handler touches
appFrame == <<mileSplitsData, cachedRunHistory, lastFetchTime, clock, calls, segVars,
              chartVars, runVars, metricsView, paceVars, storeVars, retryVars, histVars>>

\* line 2671: the history table is rendered, and renders (runs.length, runs.map)
HistoryTableShown == ~compareMode /\ IsArray(runHistory)
\* the tree under <main> renders
AppShown == compareMode \/ IsArray(runHistory)

\* handler op awaits, in place i, the fetch of its stage
Awaiting(i, op, stage) ==
    /\ i \in 1..Len(requests)
    /\ requests[i].op = op
    /\ requests[i].stage = stage

\* a handler starts: it takes the next place
Starts(call) ==
    /\ Len(requests) < MaxRequests
    /\ requests' = Append(requests, call)

\* lines 1032-1036, called by the effect of lines 1049-1053 and by handleLogin
fetchRunHistory ==
    /\ Starts(Call("fetchRunHistory", 0))
    /\ UNCHANGED <<runHistory, compareMode, comparedRuns, appError, userId, loading,
                   analysisVisible, selectedFile, results, serverRuns, appFrame>>

RunsResponses ==
    { FetchRejected("Failed to fetch"), Response(500, ErrorBody), Response(401, ErrorBody) }
    \cup { Response(200, text) : text \in RunsTexts(serverRuns) }

\* lines 1037-1045; when handleSubmit awaits the call (line 1222) it goes on
\* to its finally block (line 1228)
AppResumeFetchRunHistory(i, response) ==
    /\ Awaiting(i, "fetchRunHistory", "fetch") \/ Awaiting(i, "handleSubmit", "history")
    /\ response \in RunsResponses
    /\ runHistory' = IF ~response.rejected /\ ResponseOk(response)
                     THEN safelyParseJSON(response.body)
                     ELSE runHistory
    /\ loading' = IF requests[i].op = "handleSubmit" THEN FALSE ELSE loading
    /\ requests' = [requests EXCEPT ![i] = NoCall]
    /\ UNCHANGED <<compareMode, comparedRuns, appError, userId, analysisVisible,
                   selectedFile, results, serverRuns, appFrame>>

\* lines 1545-1551 and 1809: the selections the compare button can pass
Selections == { ids \in SUBSET RunIds : Cardinality(ids) >= 2 }

\* line 2188
NotTwoRunsWhenNone(runsToCompare) == Len(runsToCompare) = 0
NotTwoRuns(runsToCompare) == Len(runsToCompare) # 2

\* line 2186
RunsToCompare(selectedRunIds) ==
    SelectSeq(runHistory.list, LAMBDA run : \E id \in selectedRunIds : run.id = Num(Frac(id, 1)))

\* lines 2183-2199; the catch block needs a runHistory without filter, with
\* which the table that holds the compare button does not render
handleCompareRuns(selectedRunIds) ==
    /\ HistoryTableShown
    /\ IF ~IsArray(runHistory)
       THEN /\ appError' = "Failed to compare runs"
            /\ UNCHANGED <<comparedRuns, compareMode>>
       ELSE IF NotTwoRuns(RunsToCompare(selectedRunIds))
       THEN /\ appError' = "Please select exactly 2 runs to compare"
            /\ UNCHANGED <<comparedRuns, compareMode>>
       ELSE /\ comparedRuns' = RunsToCompare(selectedRunIds)
            /\ compareMode' = TRUE
            /\ UNCHANGED appError
    /\ UNCHANGED <<runHistory, userId, loading, analysisVisible, selectedFile, requests,
                   results, serverRuns, appFrame>>

\* line 2698: onClose of RunComparison
onClose ==
    /\ compareMode
    /\ compareMode' = FALSE
    /\ UNCHANGED <<runHistory, comparedRuns, appError, userId, loading, analysisVisible,
                   selectedFile, requests, results, serverRuns, appFrame>>

InHistory(runId) ==
    \E k \in 1..Len(runHistory.list) : runHistory.list[k].id = Num(Frac(runId, 1))

\* lines 2201-2207
handleRunDeleted(runId) ==
    /\ HistoryTableShown
    /\ InHistory(runId)
    /\ Starts(Call("handleRunDeleted", runId))
    /\ UNCHANGED <<runHistory, compareMode, comparedRuns, appError, userId, loading,
                   analysisVisible, selectedFile, results, serverRuns, appFrame>>

Holds(runId) == \E k \in 1..Len(serverRuns) : serverRuns[k] = runId

\* what DELETE /runs/runId may answer
DeleteResponses(runId) ==
    { FetchRejected("Failed to fetch"), FetchRejected(""), Response(401, ErrorBody),
      Response(500, ErrorBody) }
    \cup (IF Holds(runId) THEN { Response(200, JsonNull) } ELSE { Response(404, ErrorBody) })

\* line 2209: the responses after which the handler does not go on
Stops(response) == response.status = 401

\* lines 2209-2221
ResumeHandleRunDeleted(i, response) ==
    /\ Awaiting(i, "handleRunDeleted", "fetch")
    /\ response \in DeleteResponses(requests[i].runId)
    /\ serverRuns' = IF ~response.rejected /\ ResponseOk(response)
                     THEN SelectSeq(serverRuns, LAMBDA id : id # requests[i].runId)
                     ELSE serverRuns
    /\ IF response.rejected
       THEN /\ appError' = (IF response.message # "" THEN response.message
                            ELSE "Failed to delete run")
            /\ requests' = [requests EXCEPT ![i] = NoCall]
            /\ UNCHANGED userId
       ELSE IF Stops(response)
       THEN /\ userId' = Null
            /\ appError' = "Please log in to delete runs"
            /\ requests' = [requests EXCEPT ![i] = NoCall]
       ELSE /\ requests' = [requests EXCEPT ![i] = Call("fetchRunHistory", 0)]
            /\ UNCHANGED <<appError, userId>>
    /\ UNCHANGED <<runHistory, compareMode, comparedRuns, loading, analysisVisible,
                   selectedFile, results, appFrame>>

\* the analysis of a stored run (runId > 0) or of the uploaded file (0)
Analysis(runId) == [analysisOf |-> runId]
AnalysisJson(runId) == [json |-> "analysis", of |-> runId]
EmptyObject == JsonObject(<<>>)
AnalyzeErrorBody == JsonObject(<<Member("error", JsonString("No file provided"), FALSE)>>)
SyntaxErrorMessage == "Unexpected token < in JSON at position 0"

\* response.json(): rejects, or resolves with the value
JsonRejects(body) == body.json # "analysis" /\ JsonParseThrows(body)
ResponseJson(body) ==
    IF body.json = "analysis" THEN [data |-> Analysis(body.of), saved |-> TRUE]
    ELSE [key \in { body.members[k].key : k \in 1..Len(body.members) } |->
             ParseValue((CHOOSE m \in { body.members[k] : k \in 1..Len(body.members) } :
                            m.key = key).value)]

\* object.key, undefined when the object has no such key
Get(object, key) == IF key \in DOMAIN object THEN object[key] ELSE Undefined

\* errorData.error || fallback
ErrorOr(errorData, fallback) ==
    IF Truthy(Get(errorData, "error")) THEN Get(errorData, "error").text ELSE fallback

\* lines 1730-1740
viewAnalysis(runId) ==
    /\ HistoryTableShown
    /\ InHistory(runId)
    /\ Starts(Call("viewAnalysis", runId))
    /\ UNCHANGED <<runHistory, compareMode, comparedRuns, appError, userId, loading,
                   analysisVisible, selectedFile, results, serverRuns, appFrame>>

AnalysisResponses(runId) ==
    { FetchRejected("Failed to fetch"), Response(404, ErrorBody), Response(200, CorruptText),
      Response(200, AnalysisJson(runId)) }

\* lines 1745-1799: every failure ends in the alert
ResumeViewAnalysis(i, response) ==
    /\ Awaiting(i, "viewAnalysis", "fetch")
    /\ response \in AnalysisResponses(requests[i].runId)
    /\ IF ~response.rejected /\ ResponseOk(response) /\ ~JsonRejects(response.body)
       THEN /\ results' = ResponseJson(response.body)
            /\ analysisVisible' = TRUE
       ELSE UNCHANGED <<results, analysisVisible>>
    /\ requests' = [requests EXCEPT ![i] = NoCall]
    /\ UNCHANGED <<runHistory, compareMode, comparedRuns, appError, userId, loading,
                   selectedFile, serverRuns, appFrame>>

UploadedFile == [name |-> "run-2024-01-01.gpx"]

\* lines 1114-1125
handleFileChange(file) ==
    /\ AppShown
    /\ selectedFile' = file
    /\ appError' = ""
    /\ UNCHANGED <<runHistory, compareMode, comparedRuns, userId, loading, analysisVisible,
                   requests, results, serverRuns, appFrame>>

\* lines 1170-1204; the submit button is disabled while loading (line 2348)
handleSubmit ==
    /\ AppShown
    /\ ~loading
    /\ IF selectedFile = Null
       THEN /\ appError' = "No file selected"
            /\ UNCHANGED <<results, analysisVisible, loading, requests>>
       ELSE /\ results' = Null
            /\ analysisVisible' = FALSE
            /\ appError' = ""
            /\ loading' = TRUE
            /\ Starts(Call("handleSubmit", 0))
    /\ UNCHANGED <<runHistory, compareMode, comparedRuns, userId, selectedFile,
                   serverRuns, appFrame>>

AnalyzeResponses ==
    { FetchRejected("Failed to fetch"), Response(400, AnalyzeErrorBody),
      Response(500, EmptyObject), Response(500, CorruptText), Response(200, CorruptText),
      Response(200, EmptyObject), Response(200, AnalysisJson(0)) }

\* line 1226
AnalyzeError(message) == "Failed to analyze the run: " \o message

\* what the try block throws (lines 1200-1213): Null when it throws nothing
AnalyzeThrown(response) ==
    IF response.rejected THEN Text(response.message)
    ELSE IF JsonRejects(response.body) THEN Text(SyntaxErrorMessage)
    ELSE IF ~ResponseOk(response)
    THEN Text(ErrorOr(ResponseJson(response.body), "Failed to analyze the run"))
    ELSE Null

\* lines 1206-1229, up to the await of fetchRunHistory() at line 1222
ResumeHandleSubmit(i, response) ==
    /\ Awaiting(i, "handleSubmit", "fetch")
    /\ response \in AnalyzeResponses
    /\ IF AnalyzeThrown(response) # Null
       THEN /\ appError' = AnalyzeError(AnalyzeThrown(response).text)
            /\ loading' = FALSE
            /\ requests' = [requests EXCEPT ![i] = NoCall]
            /\ UNCHANGED <<results, analysisVisible>>
       ELSE /\ results' = Get(ResponseJson(response.body), "data")
            /\ analysisVisible' = TRUE
            /\ requests' = [requests EXCEPT ![i].stage = "history"]
            /\ UNCHANGED <<appError, loading>>
    /\ UNCHANGED <<runHistory, compareMode, comparedRuns, userId, selectedFile,
                   serverRuns, appFrame>>

NextApp ==
    \/ fetchRunHistory
    \/ \E i \in 1..Len(requests) :
           /\ Awaiting(i, "fetchRunHistory", "fetch") \/ Awaiting(i, "handleSubmit", "history")
           /\ \E response \in RunsResponses : AppResumeFetchRunHistory(i, response)
    \/ \E selectedRunIds \in Selections : handleCompareRuns(selectedRunIds)
    \/ onClose
    \/ \E runId \in RunIds : handleRunDeleted(runId)
    \/ \E i \in 1..Len(requests) :
           /\ Awaiting(i, "handleRunDeleted", "fetch")
           /\ \E response \in DeleteResponses(requests[i].runId) :
                  ResumeHandleRunDeleted(i, response)
    \/ \E runId \in RunIds : viewAnalysis(runId)
    \/ \E i \in 1..Len(requests) :
           /\ Awaiting(i, "viewAnalysis", "fetch")
           /\ \E response \in AnalysisResponses(requests[i].runId) :
                  ResumeViewAnalysis(i, response)
    \/ \E file \in {Null, UploadedFile} : handleFileChange(file)
    \/ handleSubmit
    \/ \E i \in 1..Len(requests) :
           /\ Awaiting(i, "handleSubmit", "fetch")
           /\ \E response \in AnalyzeResponses : ResumeHandleSubmit(i, response)

SpecApp == InitApp /\ [][NextApp]_vars

\* the runs of the history that a selection names
Matching(selectedRunIds) ==
    { k \in 1..Len(runHistory.list) :
          \E id \in selectedRunIds : runHistory.list[k].id = Num(Frac(id, 1)) }

TakenFromHistory(compared) ==
    /\ IsArray(runHistory)
    /\ \A k \in 1..Len(compared) :
           \E j \in 1..Len(runHistory.list) : runHistory.list[j] = compared[k]

C18_RunHistoryIsArray == IsArray(runHistory)

\* the handler in place i goes on to fetchRunHistory()
Refetches(i) == requests'[i] = Call("fetchRunHistory", 0)

\* C19: handleRunDeleted refetches the run history, as after a successful
\* deletion, only when the DELETE response is OK; a 401 response clears
\* userId and sets the 'Please log in' error without refetching; every other
\* failure (a response that is not OK, or a network exception) sets an error
\* and does not refetch.
C19_OnlyOkIsSuccess ==
    [][ \A i \in 1..Len(requests) : \A response \in DeleteResponses(requests[i].runId) :
            ResumeHandleRunDeleted(i, response)
            => /\ Refetches(i) <=> (~response.rejected /\ ResponseOk(response))
               /\ (~response.rejected /\ response.status = 401)
                      => /\ userId' = Null
                         /\ appError' = "Please log in to delete runs"
               /\ (response.rejected \/ ~ResponseOk(response)) => appError' # "" ]_vars

\* the response to the request of handler i arrives and the handler resumes
Settles(i) ==
    \/ /\ Awaiting(i, "fetchRunHistory", "fetch") \/ Awaiting(i, "handleSubmit", "history")
       /\ \E response \in RunsResponses : AppResumeFetchRunHistory(i, response)
    \/ /\ Awaiting(i, "handleRunDeleted", "fetch")
       /\ \E response \in DeleteResponses(requests[i].runId) :
              ResumeHandleRunDeleted(i, response)
    \/ /\ Awaiting(i, "viewAnalysis", "fetch")
       /\ \E response \in AnalysisResponses(requests[i].runId) :
              ResumeViewAnalysis(i, response)
    \/ /\ Awaiting(i, "handleSubmit", "fetch")
       /\ \E response \in AnalyzeResponses : ResumeHandleSubmit(i, response)

\* every fetch is settled in the end, fulfilled or rejected, and the event
\* loop then runs the continuation of the handler that awaits it
SpecAppFair == SpecApp /\ \A i \in 1..MaxRequests : WF_vars(Settles(i))

\* C20: every handleSubmit that starts an analyze request eventually sets
\* loading back to false; when the request fails (an error response or an
\* exception) error is non-empty, results is null and analysisVisible is
\* false; with no file selected no request is sent and results, loading and
\* analysisVisible are unchanged.
C20_SubmitSettles ==
    /\ loading ~> ~loading
    /\ [][ /\ \A i \in 1..Len(requests) : \A response \in AnalyzeResponses :
                  (ResumeHandleSubmit(i, response) /\ AnalyzeThrown(response) # Null)
                  => /\ ~loading'
                     /\ appError' # ""
                     /\ results' = Null
                     /\ ~analysisVisible'
           /\ (handleSubmit /\ selectedFile = Null)
                  => UNCHANGED <<requests, results, loading, analysisVisible>> ]_vars

--------------------------------------------------------------------------
(* PaceConsistency and FatigueAnalysis: run.data as a JSON string          *)

\* the same run with its data already parsed
WithParsedData(r) == [r EXCEPT !.data.kind = "object"]

StringDataOfThreeSplits(r) ==
    /\ r.data # Null
    /\ r.data.kind = "string"
    /\ Len(r.data.mile_splits) >= 3

\* C21: for a run whose data is a JSON string holding a mile_splits list of
\* at least 3 entries, PaceConsistency and FatigueAnalysis render the same
\* analysis as for the same run with data given as the parsed object.
C21_StringDataParsed ==
    StringDataOfThreeSplits(runProp) =>
        /\ consistencyView.rendered
               => consistencyView.out = PaceConsistency(WithParsedData(runProp))
        /\ fatigueView.rendered
               => fatigueView.out = FatigueAnalysis(WithParsedData(runProp))

--------------------------------------------------------------------------
(* components/RunHistory (src/src/components/RunHistory.js)                *)
(* The text of the response is kept as its tokens, as for App.  The        *)
(* strings of a text hold none of the words Infinity and NaN, except the   *)
(* strings that are exactly such a word.                                   *)

MaxHistoryRuns == 3

\* texts that are no JSON: '', white space, the word undefined, and what a
\* replacement leaves with its quotes out of balance
EmptyText == [json |-> "empty"]
BlankText == [json |-> "blank"]
UndefinedText == [json |-> "undefined"]
BrokenText == [json |-> "broken"]
\* a minus sign before a string literal: -"Infinity"
NegatedString(s) == [json |-> "negated", chars |-> s]

\* lines 26-32: every literal after a colon is quoted
RECURSIVE QuotedAfterColon(_, _)
QuotedAfterColon(value, afterColon) ==
    IF value.json = "bare"
    THEN IF afterColon THEN JsonString(value.word) ELSE value
    ELSE IF value.json = "array"
    THEN JsonArray([i \in 1..Len(value.items) |-> QuotedAfterColon(value.items[i], FALSE)])
    ELSE IF value.json = "object"
    THEN JsonObject([k \in 1..Len(value.members) |->
                        Member(value.members[k].key,
                               QuotedAfterColon(value.members[k].value, TRUE),
                               value.members[k].space /\ value.members[k].value.json # "bare")])
    ELSE value

\* lines 41-46: every Infinity and NaN is quoted, then "" becomes "
RECURSIVE QuotedEverywhere(_)
QuotedEverywhere(value) ==
    IF value.json = "bare"
    THEN IF value.word = "-Infinity" THEN NegatedString("Infinity") ELSE JsonString(value.word)
    ELSE IF value.json = "string"
    THEN IF value.chars \in {"", "-Infinity"} THEN BrokenText ELSE value
    ELSE IF value.json = "array"
    THEN JsonArray([i \in 1..Len(value.items) |-> QuotedEverywhere(value.items[i])])
    ELSE IF value.json = "object"
    THEN JsonObject([k \in 1..Len(value.members) |->
                        Member(value.members[k].key, QuotedEverywhere(value.members[k].value),
                               value.members[k].space)])
    ELSE value

\* JSON.parse throws a SyntaxError
RECURSIVE ParseThrows(_)
ParseThrows(text) ==
    IF text.json = "array" THEN \E i \in 1..Len(text.items) : ParseThrows(text.items[i])
    ELSE IF text.json = "object"
    THEN \E k \in 1..Len(text.members) : ParseThrows(text.members[k].value)
    ELSE text.json \notin {"number", "string", "null"}

\* a parsed object: its keys and values in order
ObjectValue(members) == [object |-> members]
IsObject(value) == "object" \in DOMAIN value

\* JSON.parse (no reviver)
RECURSIVE Parsed(_)
Parsed(text) ==
    IF text.json = "array" THEN List([i \in 1..Len(text.items) |-> Parsed(text.items[i])])
    ELSE IF text.json = "object"
    THEN ObjectValue([k \in 1..Len(text.members) |->
                         [key |-> text.members[k].key, value |-> Parsed(text.members[k].value)]])
    ELSE ParseValue(text)

\* line 57: the text with Infinity and NaN quoted, run as a script; a string
\* that holds one of the words ends up with doubled quotes
RECURSIVE ScriptThrows(_)
ScriptThrows(text) ==
    IF text.json = "array" THEN \E i \in 1..Len(text.items) : ScriptThrows(text.items[i])
    ELSE IF text.json = "object"
    THEN \E k \in 1..Len(text.members) : ScriptThrows(text.members[k].value)
    ELSE IF text.json = "string" THEN text.chars \in {"Infinity", "-Infinity", "NaN"}
    ELSE text.json \notin {"number", "null", "bare", "undefined", "blank"}

RECURSIVE ScriptValue(_)
ScriptValue(text) ==
    IF text.json = "array" THEN List([i \in 1..Len(text.items) |-> ScriptValue(text.items[i])])
    ELSE IF text.json = "object"
    THEN ObjectValue([k \in 1..Len(text.members) |->
                         [key |-> text.members[k].key,
                          value |-> ScriptValue(text.members[k].value)]])
    ELSE IF text.json = "bare"
    THEN IF text.word = "-Infinity" THEN Num(MinusInfinity) ELSE Text(text.word)
    ELSE IF text.json \in {"undefined", "blank"} THEN Undefined
    ELSE ParseValue(text)

\* lines 18-70: safelyParseJSON of the effect
historySafelyParseJSON(jsonText) ==
    IF jsonText.json = "empty" THEN List(<<>>)
    ELSE IF ~ParseThrows(QuotedAfterColon(jsonText, FALSE))
    THEN Parsed(QuotedAfterColon(jsonText, FALSE))
    ELSE IF ~ParseThrows(QuotedEverywhere(jsonText)) THEN Parsed(QuotedEverywhere(jsonText))
    ELSE IF ~ScriptThrows(jsonText) THEN ScriptValue(jsonText)
    ELSE List(<<>>)

\* lines 102-107
ReceivedData(text) ==
    IF text.json \in {"empty", "blank"} THEN List(<<>>) ELSE historySafelyParseJSON(text)

\* data.runs, undefined when the object has no such key
RunsOf(data) ==
    IF \E k \in 1..Len(data.object) : data.object[k].key = "runs"
    THEN data.object[CHOOSE k \in 1..Len(data.object) :
                         /\ data.object[k].key = "runs"
                         /\ \A j \in (k + 1)..Len(data.object) : data.object[j].key # "runs"].value
    ELSE Undefined

\* lines 118-135
ProcessedRuns(data) ==
    IF IsArray(data) THEN data
    ELSE IF IsObject(data)
    THEN IF IsArray(RunsOf(data)) THEN RunsOf(data)
         ELSE List([k \in 1..Len(data.object) |-> data.object[k].value])
    ELSE List(<<>>)

\* line 143: what setRuns is given
StoredRunsAsReceived(data) == data
StoredRuns(data) == IF IsArray(ProcessedRuns(data)) THEN ProcessedRuns(data) ELSE List(<<>>)

\* the texts GET /runs may answer with
HistoryPaces ==
    { JsonNumber(Frac(9, 1)), BareLiteral("Infinity"), BareLiteral("-Infinity"),
      BareLiteral("NaN") }

HistoryRunObject(id, pace) ==
    JsonObject(<<Member("id", JsonNumber(Frac(id, 1)), FALSE), Member("pace", pace, TRUE)>>)

HistoryRunLists ==
    UNION { { JsonArray([i \in 1..n |-> HistoryRunObject(i, paces[i])]) :
                  paces \in [1..n -> HistoryPaces] } : n \in 0..MaxHistoryRuns }

HistoryTexts ==
    HistoryRunLists
    \cup { JsonObject(<<Member("runs", list, FALSE)>>) : list \in HistoryRunLists }
    \cup { JsonArray(<<BareLiteral(word)>>) : word \in {"Infinity", "-Infinity", "NaN"} }
    \cup { JsonArray(<<BareLiteral(word), JsonString("")>>) : word \in {"Infinity", "-Infinity"} }
    \cup { JsonArray(<<BareLiteral("-Infinity"), JsonString("NaN")>>),
           JsonObject(<<Member("runs", JsonNumber(Frac(2, 1)), FALSE)>>),
           ErrorBody, JsonNull, JsonNumber(Frac(42, 1)), BareLiteral("NaN"),
           EmptyText, BlankText, UndefinedText, CorruptText }

\* response.text() rejects
UnreadableBody == [json |-> "unreadable"]

HistoryResponses ==
    { FetchRejected("Failed to fetch"), Response(500, ErrorBody), Response(401, ErrorBody),
      Response(200, UnreadableBody) }
    \cup { Response(200, text) : text \in HistoryTexts }

\* what the try block throws (lines 82-111): Null when it throws nothing
FetchRunsThrown(response) ==
    IF response.rejected THEN Text(response.message)
    ELSE IF ~ResponseOk(response)
    THEN Text("Failed to fetch runs: " \o ToString(response.status))
    ELSE IF response.body = UnreadableBody THEN Text("Invalid response format from server")
    ELSE Null

InitHistory ==
    /\ HistoryIdle
    /\ BaseIdle
    /\ StoreIdle
    /\ ApiIdle
    /\ RetryIdle
    /\ AppIdle

historyFrame == <<baseVars, storeVars, apiVars, retryVars, appVars>>

\* lines 14-16, 72-89 and 161: the effect runs after the first render
MountRunHistory ==
    /\ runsRequest = "none"
    /\ isMounted' = TRUE
    /\ historyLoading' = TRUE
    /\ historyError' = Null
    /\ runsRequest' = "awaiting"
    /\ UNCHANGED <<historyRuns, historyFrame>>

\* lines 164-166: the cleanup of the effect
UnmountRunHistory ==
    /\ isMounted
    /\ isMounted' = FALSE
    /\ UNCHANGED <<historyRuns, historyLoading, historyError, runsRequest, historyFrame>>

\* lines 141, 149, 155: if (isMounted)
MayUpdateAlways == TRUE
MayUpdate == isMounted

\* lines 91-158: fetchRuns after the await
ResumeFetchRuns(response) ==
    /\ runsRequest = "awaiting"
    /\ response \in HistoryResponses
    /\ runsRequest' = "settled"
    /\ IF ~MayUpdate
       THEN UNCHANGED <<historyRuns, historyLoading, historyError>>
       ELSE /\ historyLoading' = FALSE
            /\ IF FetchRunsThrown(response) # Null
               THEN /\ historyError' = FetchRunsThrown(response)
                    /\ historyRuns' = List(<<>>)
               ELSE /\ historyRuns' = StoredRuns(ReceivedData(response.body))
                    /\ historyError' = Null
    /\ UNCHANGED <<isMounted, historyFrame>>

NextHistory ==
    \/ MountRunHistory
    \/ UnmountRunHistory
    \/ \E response \in HistoryResponses : ResumeFetchRuns(response)

SpecHistory == InitHistory /\ [][NextHistory]_vars

\* C22: the runs state of components/RunHistory is an array in every
\* reachable state, whatever the server answers, and whenever error is set
\* runs is the empty array.
C22_RunsAlwaysArray ==
    /\ IsArray(historyRuns)
    /\ historyError # Null => historyRuns = List(<<>>)

\* the fetch has completed with a body that is no array, and with an error
C22_Witness ==
    /\ runsRequest = "settled"
    /\ isMounted
    /\ \/ historyRuns = List(<<Num(Frac(2, 1))>>)
       \/ historyError = Text("Failed to fetch runs: 500")

\* C23: once components/RunHistory has been unmounted, no step (the
\* completion of the /runs fetch included, whatever the response) changes
\* runs, loading or error; while it is mounted, the completion of the fetch
\* ends with loading = false.
C23_UnmountedFetchIsInert ==
    [][/\ (~isMounted /\ runsRequest # "none")
            => UNCHANGED <<historyRuns, historyLoading, historyError>>
       /\ (isMounted /\ runsRequest = "awaiting" /\ runsRequest' = "settled")
            => historyLoading' = FALSE]_vars

\* the fetch has completed after the unmount, and loading is still shown
C23_Witness ==
    /\ runsRequest = "settled"
    /\ ~isMounted
    /\ historyLoading

====
